---- MODULE Spec2Model ----
(***************************************************************************)
(* Extraction-and-merge pipeline of backend/app/services/                  *)
(* information_extractor.py: the text segmenter (_split_text), the         *)
(* response parser (_parse_model_response), the per-chunk extraction       *)
(* (_extract_from_chunk, extract_from_text) and the deduplicating merge    *)
(* (_merge_entities, _merge_relations).                                    *)
(*                                                                         *)
(* Community-aware answering of backend/app/services/graphrag_qa.py: the   *)
(* relevance ranking (_find_relevant_communities and its keyword           *)
(* fallback) and the three search strategies behind answer_question.       *)
(*                                                                         *)
(* Confidences are floats in the program; they are only compared, so they  *)
(* are modelled in tenths (9 stands for 0.9); so are relevance scores and  *)
(* the confidences of answers.                                             *)
(***************************************************************************)
EXTENDS Integers, Sequences, FiniteSets, TLC

VARIABLES
    merge_fn,     \* which merge function runs: "_merge_entities" | "_merge_relations"
    inputs,       \* the list passed to the merge function, as passed (values)
    objects,      \* the objects of that list, mutated in place by the merge
    merged,       \* the dict `merged`, in insertion order: <<[key, ref]>>
    text,         \* _split_text: the text to split, a sequence of characters
    chunk_size,   \* self.chunk_size
    chunk_overlap,\* self.chunk_overlap
    start,        \* _split_text: the cursor `start`
    chunks,       \* _split_text: the list `chunks`, each with the slice it was cut by
    split_pc,     \* _split_text: "idle" | "call" | "loop" | "done"
    schema,       \* what schema_manager.get_schema() returns: "loaded" | "none"
    extract_pc,   \* extract_from_text: "idle" | "call" | "chunks" | "returned"
    chunk_index,  \* extract_from_text: the chunks handled so far (enumerate's i)
    last_call,    \* the latest _extract_from_chunk: its response and its result
    all_entities, \* extract_from_text: all_entities
    all_relations,\* extract_from_text: all_relations
    success_count,\* extract_from_text: success_count
    parse_failures,  \* the chunks so far whose response ran into an except branch
    generate_calls,  \* the calls of ollama_client.generate_with_template so far
    result,       \* the ExtractionResult returned, "none" before the return
    question,     \* answer_question: the question, as its whitespace-separated tokens
    search_strategy,  \* "community_first" | "global_first" | "hybrid"
    catalog,      \* what the CommunitySummary query does: raise, or return records
    qa_pc,        \* answer_question: "idle" | "call" | "ranked" | "hybrid_community"
                  \*   | "hybrid_global" | "answered" | "returned"
    rank_call,    \* the latest _find_relevant_communities: response and path taken
    relevant_communities, \* answer_question: relevant_communities
    community_results,    \* _hybrid_search: community_results
    global_answer,        \* _hybrid_search: global_answer
    answer,       \* answer_question: answer (a one-element list once assigned)
    community_contexts,   \* community_contexts of the latest _community_first_search
    calls,        \* the external calls issued so far, in order
    strategy_runs,\* how often each strategy's action has run in this call
    last_env,     \* what the collaborators did in the latest strategy step
    qa_result     \* the dict answer_question returns (a one-element list)

merge_vars == <<merge_fn, inputs, objects, merged>>

split_vars == <<text, chunk_size, chunk_overlap, start, chunks, split_pc>>

extract_vars ==
    <<schema, extract_pc, chunk_index, last_call, all_entities, all_relations,
      success_count, parse_failures, generate_calls, result>>

qa_vars ==
    <<question, search_strategy, catalog, qa_pc, rank_call, relevant_communities,
      community_results, global_answer, answer, community_contexts, calls,
      strategy_runs, last_env, qa_result>>

vars == <<merge_vars, split_vars, extract_vars, qa_vars>>

(***************************************************************************)
(* Bounds of the model.                                                    *)
(***************************************************************************)
MaxItems == 3

MaxLen == 10

MaxSize == 9

MaxChunks == 11

DocMaxLen == 4

DocChunkSize == 3

MaxTokens == 2

MaxCatalog == 4

(***************************************************************************)
(* Values.                                                                 *)
(***************************************************************************)
Confidences == {5, 8, 9}

EmptyDict == [k \in {} |-> ""]

PropertyMaps ==
    { [k \in {"title"} |-> "PM"],
      [k \in {"title"} |-> "Manager"],
      [k \in {"age"} |-> "30"] }

\* (type, name) of the entities the generation collaborator may name
EntityIdents ==
    { <<"Person", "Bob">>, <<"Person", "bob">>, <<"Organization", "Bob">> }

\* (type, source, target) of the relations it may name
RelationIdents ==
    { <<"WORKS_FOR", "Bob", "ACME">>, <<"WORKS_FOR", "bob", "acme">>,
      <<"OWNS", "Bob", "ACME">> }

ExtractedEntity ==
    { [type |-> id[1], name |-> id[2], properties |-> p, confidence |-> c,
       source_text |-> <<>>] :
        id \in EntityIdents, p \in PropertyMaps, c \in Confidences }

ExtractedRelation ==
    { [type |-> id[1], source |-> id[2], target |-> id[3],
       properties |-> p, confidence |-> c, source_text |-> <<>>] :
        id \in RelationIdents, p \in PropertyMaps, c \in Confidences }

\* str.lower() on the names of the model
Lower(s) ==
    CASE s = "Bob" -> "bob"
      [] s = "ACME" -> "acme"
      [] OTHER -> s

\* dict.update() that keeps the receiver's value on the keys both hold
DictUpdateKeepsOld(d, other) ==
    [k \in (DOMAIN d) \cup (DOMAIN other) |->
        IF k \in DOMAIN d THEN d[k] ELSE other[k]]

\* dict.update(other): other's values win on the keys both hold
DictUpdate(d, other) ==
    [k \in (DOMAIN d) \cup (DOMAIN other) |->
        IF k \in DOMAIN other THEN other[k] ELSE d[k]]

\* the key without lower()
EntityKeyCaseSensitive(entity) == <<entity.type, entity.name>>

EntityKey(entity) == <<entity.type, Lower(entity.name)>>

RelationKey(relation) ==
    <<relation.type, Lower(relation.source), Lower(relation.target)>>

\* position of `key` in the dict, 0 when `key not in merged`
DictFind(dict, key) ==
    IF \E p \in 1..Len(dict) : dict[p].key = key
    THEN CHOOSE p \in 1..Len(dict) : dict[p].key = key
    ELSE 0

\* the loop body whose else branch forgets entity.properties.update(...)
MergeEntitiesBodyNoUpdate(st, entity) ==
    LET ref  == Len(st.objects) + 1
        heap == Append(st.objects, entity)
        key  == <<entity.type, Lower(entity.name)>>
        p    == DictFind(st.merged, key)
    IN  IF p # 0
        THEN LET existing == st.merged[p].ref
             IN  IF entity.confidence > heap[existing].confidence
                 THEN [objects |->
                          [heap EXCEPT
                             ![existing].properties =
                                 DictUpdate(@, entity.properties),
                             ![existing].confidence = entity.confidence],
                       merged |-> st.merged]
                 ELSE [objects |-> heap,
                       merged |-> [st.merged EXCEPT ![p].ref = ref]]
        ELSE [objects |-> heap,
              merged |-> Append(st.merged, [key |-> key, ref |-> ref])]

\* the loop body whose else branch keeps the stored, more confident item
MergeEntitiesBodyKeepStored(st, entity) ==
    LET ref  == Len(st.objects) + 1
        heap == Append(st.objects, entity)
        key  == <<entity.type, Lower(entity.name)>>
        p    == DictFind(st.merged, key)
    IN  IF p # 0
        THEN LET existing == st.merged[p].ref
             IN  IF entity.confidence > heap[existing].confidence
                 THEN [objects |->
                          [heap EXCEPT
                             ![existing].properties =
                                 DictUpdate(@, entity.properties),
                             ![existing].confidence = entity.confidence],
                       merged |-> st.merged]
                 ELSE [objects |->
                          [heap EXCEPT
                             ![existing].properties =
                                 DictUpdate(entity.properties, @)],
                       merged |-> st.merged]
        ELSE [objects |-> heap,
              merged |-> Append(st.merged, [key |-> key, ref |-> ref])]

(***************************************************************************)
(* One iteration of the loop of _merge_entities. `st` holds the objects    *)
(* seen so far and the dict; `entity` is the next element of the list.     *)
(***************************************************************************)
MergeEntitiesBody(st, entity) ==
    LET ref  == Len(st.objects) + 1
        heap == Append(st.objects, entity)
        key  == EntityKey(entity)
        p    == DictFind(st.merged, key)
    IN  IF p # 0
        THEN LET existing == st.merged[p].ref
             IN  IF entity.confidence > heap[existing].confidence
                 THEN [objects |->
                          [heap EXCEPT
                             ![existing].properties =
                                 DictUpdate(@, entity.properties),
                             ![existing].confidence = entity.confidence],
                       merged |-> st.merged]
                 ELSE [objects |->
                          [heap EXCEPT
                             ![ref].properties =
                                 DictUpdate(@, heap[existing].properties)],
                       merged |-> [st.merged EXCEPT ![p].ref = ref]]
        ELSE [objects |-> heap,
              merged |-> Append(st.merged, [key |-> key, ref |-> ref])]

(***************************************************************************)
(* One iteration of the loop of _merge_relations.                          *)
(***************************************************************************)
MergeRelationsBody(st, relation) ==
    LET ref  == Len(st.objects) + 1
        heap == Append(st.objects, relation)
        key  == RelationKey(relation)
        p    == DictFind(st.merged, key)
    IN  IF p # 0
        THEN LET existing == st.merged[p].ref
             IN  IF relation.confidence > heap[existing].confidence
                 THEN [objects |->
                          [heap EXCEPT
                             ![existing].properties =
                                 DictUpdate(@, relation.properties),
                             ![existing].confidence = relation.confidence],
                       merged |-> st.merged]
                 ELSE [objects |->
                          [heap EXCEPT
                             ![ref].properties =
                                 DictUpdate(@, heap[existing].properties)],
                       merged |-> [st.merged EXCEPT ![p].ref = ref]]
        ELSE [objects |-> heap,
              merged |-> Append(st.merged, [key |-> key, ref |-> ref])]

EmptyMerge == [objects |-> <<>>, merged |-> <<>>]

RECURSIVE MergeEntitiesFold(_, _)
MergeEntitiesFold(st, entities) ==
    IF entities = <<>> THEN st
    ELSE MergeEntitiesFold(MergeEntitiesBody(st, Head(entities)), Tail(entities))

RECURSIVE MergeRelationsFold(_, _)
MergeRelationsFold(st, relations) ==
    IF relations = <<>> THEN st
    ELSE MergeRelationsFold(MergeRelationsBody(st, Head(relations)), Tail(relations))

\* list(merged.values())
DictValues(st) == [p \in 1..Len(st.merged) |-> st.objects[st.merged[p].ref]]

_merge_entities(entities) == DictValues(MergeEntitiesFold(EmptyMerge, entities))

_merge_relations(relations) == DictValues(MergeRelationsFold(EmptyMerge, relations))

(***************************************************************************)
(* The merge as a state machine: the loop consumes the list one element at *)
(* a time; every prefix of a list is itself a list the function can get.   *)
(***************************************************************************)
MergeIdle ==
    /\ merge_fn = "none"
    /\ inputs = <<>>
    /\ objects = <<>>
    /\ merged = <<>>

ExtractIdle ==
    /\ schema = "loaded"
    /\ extract_pc = "idle"
    /\ chunk_index = 0
    /\ last_call = "none"
    /\ all_entities = <<>>
    /\ all_relations = <<>>
    /\ success_count = 0
    /\ parse_failures = 0
    /\ generate_calls = 0
    /\ result = "none"

QAIdle ==
    /\ question = <<>>
    /\ search_strategy = "none"
    /\ catalog = [raised |-> FALSE, records |-> <<>>]
    /\ qa_pc = "idle"
    /\ rank_call = "none"
    /\ relevant_communities = <<>>
    /\ community_results = <<>>
    /\ global_answer = <<>>
    /\ answer = <<>>
    /\ community_contexts = <<>>
    /\ calls = <<>>
    /\ strategy_runs = [community_first |-> 0, global_first |-> 0, synthesis |-> 0]
    /\ last_env = <<>>
    /\ qa_result = <<>>

SplitIdle ==
    /\ text = <<>>
    /\ chunk_size = 0
    /\ chunk_overlap = 0
    /\ start = 0
    /\ chunks = <<>>
    /\ split_pc = "idle"

MergeInit ==
    /\ merge_fn \in {"_merge_entities", "_merge_relations"}
    /\ inputs = <<>>
    /\ objects = <<>>
    /\ merged = <<>>
    /\ SplitIdle
    /\ ExtractIdle
    /\ QAIdle

MergeEntityStep ==
    /\ merge_fn = "_merge_entities"
    /\ Len(inputs) < MaxItems
    /\ \E entity \in ExtractedEntity :
         LET st == MergeEntitiesBody([objects |-> objects, merged |-> merged], entity)
         IN  /\ inputs' = Append(inputs, entity)
             /\ objects' = st.objects
             /\ merged' = st.merged
    /\ UNCHANGED <<merge_fn, split_vars, extract_vars, qa_vars>>

MergeRelationStep ==
    /\ merge_fn = "_merge_relations"
    /\ Len(inputs) < MaxItems
    /\ \E relation \in ExtractedRelation :
         LET st == MergeRelationsBody([objects |-> objects, merged |-> merged], relation)
         IN  /\ inputs' = Append(inputs, relation)
             /\ objects' = st.objects
             /\ merged' = st.merged
    /\ UNCHANGED <<merge_fn, split_vars, extract_vars, qa_vars>>

MergeNext == MergeEntityStep \/ MergeRelationStep

SpecMerge == MergeInit /\ [][MergeNext]_vars

(***************************************************************************)
(* _split_text.                                                            *)
(***************************************************************************)
Alphabet == {"a", "."}

\* the sentence-boundary markers whose rfind() the code collects, in its order:
\* ideographic full stop, newline, fullwidth '!', fullwidth '?', ';', '.'
Markers == <<"U+3002", "LF", "U+FF01", "U+FF1F", ";", ".">>

Min2(a, b) == IF a < b THEN a ELSE b

Max2(a, b) == IF a > b THEN a ELSE b

\* a slice bound as Python resolves it against a string of length n
SliceIndex(i, n) == IF i < 0 THEN Max2(i + n, 0) ELSE Min2(i, n)

\* s[lo:hi]
PySlice(s, lo, hi) ==
    LET a == SliceIndex(lo, Len(s))
        b == SliceIndex(hi, Len(s))
    IN  IF a < b THEN SubSeq(s, a + 1, b) ELSE <<>>

\* s.rfind(c): the highest 0-based index of c in s, or -1
RFind(s, c) ==
    IF \E i \in 1..Len(s) : s[i] = c
    THEN (CHOOSE i \in 1..Len(s) : s[i] = c /\ \A j \in (i + 1)..Len(s) : s[j] # c) - 1
    ELSE -1

\* max(split_points, default=-1): a marker accepted wherever it is in the window
BestSplitAnyOffset(chunk_text, size) ==
    LET split_points == [m \in 1..Len(Markers) |-> RFind(chunk_text, Markers[m])]
        kept == {split_points[m] : m \in 1..Len(Markers)}
    IN  CHOOSE p \in kept : \A q \in kept : q <= p

\* max([p for p in split_points if p > self.chunk_size // 2], default=-1)
BestSplit(chunk_text, size) ==
    LET split_points == [m \in 1..Len(Markers) |-> RFind(chunk_text, Markers[m])]
        kept == {split_points[m] : m \in 1..Len(Markers)} \cap
                    {p \in -1..Len(chunk_text) : p > size \div 2}
    IN  IF kept = {} THEN -1 ELSE CHOOSE p \in kept : \A q \in kept : q <= p

\* a chunk: the string appended to `chunks`, with the slice bounds it was cut by
Chunk(lo, hi) == [start |-> lo, stop |-> hi, text |-> PySlice(text, lo, hi)]

SplitInit ==
    /\ text \in UNION {[1..n -> Alphabet] : n \in 0..MaxLen}
    /\ chunk_size \in 1..MaxSize
    /\ chunk_overlap \in 0..(chunk_size - 1)
    /\ start = 0
    /\ chunks = <<>>
    /\ split_pc = "call"
    /\ MergeIdle
    /\ ExtractIdle
    /\ QAIdle

\* the early return that gives back the text cut to the window less the overlap
SplitShortCutsOverlap ==
    /\ split_pc = "call"
    /\ Len(text) <= chunk_size
    /\ chunks' = <<Chunk(0, chunk_size - chunk_overlap)>>
    /\ split_pc' = "done"
    /\ UNCHANGED <<text, chunk_size, chunk_overlap, start, merge_vars, extract_vars, qa_vars>>

\* if len(text) <= self.chunk_size: return [text]
SplitShort ==
    /\ split_pc = "call"
    /\ Len(text) <= chunk_size
    /\ chunks' = <<Chunk(0, Len(text))>>
    /\ split_pc' = "done"
    /\ UNCHANGED <<text, chunk_size, chunk_overlap, start, merge_vars, extract_vars, qa_vars>>

\* chunks = []; start = 0
SplitEnter ==
    /\ split_pc = "call"
    /\ Len(text) > chunk_size
    /\ chunks' = <<>>
    /\ start' = 0
    /\ split_pc' = "loop"
    /\ UNCHANGED <<text, chunk_size, chunk_overlap, merge_vars, extract_vars, qa_vars>>

\* the last chunk taken as text[0:] in place of text[start:]
SplitLastWholeText ==
    /\ split_pc = "loop"
    /\ start < Len(text)
    /\ Len(chunks) < MaxChunks
    /\ start + chunk_size >= Len(text)
    /\ chunks' = Append(chunks, Chunk(0, Len(text)))
    /\ split_pc' = "done"
    /\ UNCHANGED <<text, chunk_size, chunk_overlap, start, merge_vars, extract_vars, qa_vars>>

\* if end >= len(text): chunks.append(text[start:]); break; return chunks
SplitLast ==
    /\ split_pc = "loop"
    /\ start < Len(text)
    /\ Len(chunks) < MaxChunks
    /\ start + chunk_size >= Len(text)
    /\ chunks' = Append(chunks, Chunk(start, Len(text)))
    /\ split_pc' = "done"
    /\ UNCHANGED <<text, chunk_size, chunk_overlap, start, merge_vars, extract_vars, qa_vars>>

\* the cut at a marker that forgets the + 1 when it moves the cursor
SplitAtMarkerNoStep ==
    /\ split_pc = "loop"
    /\ start < Len(text)
    /\ Len(chunks) < MaxChunks
    /\ start + chunk_size < Len(text)
    /\ LET end        == start + chunk_size
           chunk_text == PySlice(text, start, end)
           best_split == BestSplit(chunk_text, chunk_size)
       IN  /\ best_split > 0
           /\ chunks' = Append(chunks, Chunk(start, start + best_split + 1))
           /\ start' = start + best_split - chunk_overlap
    /\ UNCHANGED <<text, chunk_size, chunk_overlap, split_pc, merge_vars, extract_vars, qa_vars>>

\* if best_split > 0: cut after the marker, step back by the overlap
SplitAtMarker ==
    /\ split_pc = "loop"
    /\ start < Len(text)
    /\ Len(chunks) < MaxChunks
    /\ start + chunk_size < Len(text)
    /\ LET end        == start + chunk_size
           chunk_text == PySlice(text, start, end)
           best_split == BestSplit(chunk_text, chunk_size)
       IN  /\ best_split > 0
           /\ chunks' = Append(chunks, Chunk(start, start + best_split + 1))
           /\ start' = start + best_split + 1 - chunk_overlap
    /\ UNCHANGED <<text, chunk_size, chunk_overlap, split_pc, merge_vars, extract_vars, qa_vars>>

\* the hard cut that moves the cursor as the cut at a marker does (+ 1)
SplitHardCutSkipsOne ==
    /\ split_pc = "loop"
    /\ start < Len(text)
    /\ Len(chunks) < MaxChunks
    /\ start + chunk_size < Len(text)
    /\ LET end        == start + chunk_size
           chunk_text == PySlice(text, start, end)
           best_split == BestSplit(chunk_text, chunk_size)
       IN  /\ ~(best_split > 0)
           /\ chunks' = Append(chunks, Chunk(start, end))
           /\ start' = end + 1 - chunk_overlap
    /\ UNCHANGED <<text, chunk_size, chunk_overlap, split_pc, merge_vars, extract_vars, qa_vars>>

\* else: chunks.append(chunk_text); start = end - self.chunk_overlap
SplitHardCut ==
    /\ split_pc = "loop"
    /\ start < Len(text)
    /\ Len(chunks) < MaxChunks
    /\ start + chunk_size < Len(text)
    /\ LET end        == start + chunk_size
           chunk_text == PySlice(text, start, end)
           best_split == BestSplit(chunk_text, chunk_size)
       IN  /\ ~(best_split > 0)
           /\ chunks' = Append(chunks, Chunk(start, end))
           /\ start' = end - chunk_overlap
    /\ UNCHANGED <<text, chunk_size, chunk_overlap, split_pc, merge_vars, extract_vars, qa_vars>>

SplitNext == SplitShort \/ SplitEnter \/ SplitLast \/ SplitAtMarker \/ SplitHardCut

SpecSplit == SplitInit /\ [][SplitNext]_vars

\* _split_text on the 20-character text "1234567890ABCDEFGHIJ", on its
\* prefixes, and on those with one character replaced by a full stop; the
\* window is 10 characters wide
ExampleText ==
    <<"1", "2", "3", "4", "5", "6", "7", "8", "9", "0",
      "A", "B", "C", "D", "E", "F", "G", "H", "I", "J">>

ExampleSize == 10

ExampleOverlaps == 0..2

ExampleTexts ==
    { [i \in 1..n |-> IF i = k THEN "." ELSE ExampleText[i]] :
        n \in 0..Len(ExampleText), k \in 0..Len(ExampleText) }

SplitExampleInit ==
    /\ text \in ExampleTexts
    /\ chunk_size = ExampleSize
    /\ chunk_overlap \in ExampleOverlaps
    /\ start = 0
    /\ chunks = <<>>
    /\ split_pc = "call"
    /\ MergeIdle
    /\ ExtractIdle
    /\ QAIdle

SpecSplitExample == SplitExampleInit /\ [][SplitNext]_vars

(***************************************************************************)
(* The generation collaborator's responses.  A response text is modelled   *)
(* by what the parser reads of it: whether it holds a ```json fenced       *)
(* block, whether prose surrounds the payload, and the payload itself,     *)
(* either not JSON or the JSON value it denotes.                           *)
(***************************************************************************)
JsonString == [json |-> "string"]

JsonNumber == [json |-> "number"]

JsonList(items) == [json |-> "list", items |-> items]

JsonObject(members) == [json |-> "object", members |-> members]

NotJson == [json |-> "invalid"]

EntityDataA ==
    JsonObject([type |-> "Person", name |-> "Bob",
                properties |-> [k \in {"title"} |-> "PM"], confidence |-> 9])

EntityDataB ==
    JsonObject([type |-> "Person", name |-> "bob",
                properties |-> [k \in {"title"} |-> "Manager"], confidence |-> 5])

\* an entity that gives neither properties nor confidence
EntityDataBare == JsonObject([type |-> "Organization", name |-> "ACME"])

RelationDataR ==
    JsonObject([type |-> "WORKS_FOR", source |-> "Bob", target |-> "ACME",
                properties |-> [k \in {"title"} |-> "PM"], confidence |-> 8])

\* the JSON value null where a string is expected ("name": null): json.loads
\* gives None, which has no lower()
JsonNull == "<null>"

IsStr(v) == v # JsonNull

\* a well-formed JSON object whose name is null
EntityDataNull == JsonObject([type |-> "Person", name |-> JsonNull])

Payloads ==
    { NotJson,
      JsonList(<<>>),
      JsonObject([k \in {} |-> JsonNumber]),
      JsonObject([entities |-> JsonNumber]),
      JsonObject([entities |-> JsonList(<<EntityDataA>>)]),
      JsonObject([entities |-> JsonList(<<EntityDataA, EntityDataNull>>)]),
      JsonObject([entities |-> JsonList(<<EntityDataA, JsonString>>),
                  relations |-> JsonList(<<RelationDataR>>)]),
      JsonObject([entities |-> JsonList(<<EntityDataB, EntityDataBare>>),
                  relations |-> JsonList(<<RelationDataR, JsonString>>)]),
      JsonObject([entities |-> JsonList(<<EntityDataB>>),
                  relations |-> JsonNumber]),
      JsonObject([entities |-> JsonList(<<JsonString>>),
                  relations |-> JsonList(<<RelationDataR>>)]) }

\* response.content
Contents ==
    { [fenced |-> TRUE, prose |-> TRUE, payload |-> d] : d \in Payloads } \cup
    { [fenced |-> FALSE, prose |-> FALSE, payload |-> d] : d \in Payloads } \cup
    { [fenced |-> FALSE, prose |-> TRUE,
       payload |-> JsonObject([entities |-> JsonList(<<EntityDataA>>)])] }

\* what generate_with_template does: raise, or return a ModelResponse
Responses ==
    { [raised |-> TRUE, success |-> FALSE, content |-> "none"],
      [raised |-> FALSE, success |-> FALSE, content |-> "none"] } \cup
    { [raised |-> FALSE, success |-> TRUE, content |-> c] : c \in Contents }

\* dict.get(key, default)
DictGet(d, key, default) == IF key \in DOMAIN d THEN d[key] ELSE default

(***************************************************************************)
(* _parse_model_response.                                                  *)
(***************************************************************************)
\* json.loads(json_str), json_str being the fenced block when the regular
\* expression finds one and the stripped response otherwise
JsonLoads(content) ==
    IF content.fenced THEN content.payload
    ELSE IF content.prose THEN NotJson
    ELSE content.payload

ParsedEntity(entity_data, source_text) ==
    [type        |-> DictGet(entity_data.members, "type", ""),
     name        |-> DictGet(entity_data.members, "name", ""),
     properties  |-> DictGet(entity_data.members, "properties", EmptyDict),
     confidence  |-> DictGet(entity_data.members, "confidence", 10),
     source_text |-> source_text]

ParsedRelation(relation_data, source_text) ==
    [type        |-> DictGet(relation_data.members, "type", ""),
     source      |-> DictGet(relation_data.members, "source", ""),
     target      |-> DictGet(relation_data.members, "target", ""),
     properties  |-> DictGet(relation_data.members, "properties", EmptyDict),
     confidence  |-> DictGet(relation_data.members, "confidence", 10),
     source_text |-> source_text]

\* the for loop over data.get('entities', []): the items appended before the
\* first element that is no dict, and whether such an element raised
RECURSIVE ParseEntities(_, _)
ParseEntities(items, source_text) ==
    IF items = <<>> THEN [list |-> <<>>, raised |-> FALSE]
    ELSE IF Head(items).json # "object" THEN [list |-> <<>>, raised |-> TRUE]
    ELSE LET rest == ParseEntities(Tail(items), source_text)
         IN  [list   |-> <<ParsedEntity(Head(items), source_text)>> \o rest.list,
              raised |-> rest.raised]

RECURSIVE ParseRelations(_, _)
ParseRelations(items, source_text) ==
    IF items = <<>> THEN [list |-> <<>>, raised |-> FALSE]
    ELSE IF Head(items).json # "object" THEN [list |-> <<>>, raised |-> TRUE]
    ELSE LET rest == ParseRelations(Tail(items), source_text)
         IN  [list   |-> <<ParsedRelation(Head(items), source_text)>> \o rest.list,
              raised |-> rest.raised]

\* the lists returned, and the except branch taken ("none" when none was)
_parse_model_response(response, source_text) ==
    LET data == JsonLoads(response)
        none == [entities |-> <<>>, relations |-> <<>>]
    IN  IF data.json = "invalid"
        THEN \* except json.JSONDecodeError: _fallback_text_parsing
             none @@ [except |-> "JSONDecodeError"]
        ELSE IF data.json # "object"
        THEN \* data.get raises AttributeError
             none @@ [except |-> "Exception"]
        ELSE LET entities_data == DictGet(data.members, "entities", JsonList(<<>>))
                 relations_data == DictGet(data.members, "relations", JsonList(<<>>))
             IN  IF entities_data.json # "list"
                 THEN none @@ [except |-> "Exception"]
                 ELSE LET es == ParseEntities(entities_data.items, source_text)
                      IN  IF es.raised
                          THEN [entities |-> es.list, relations |-> <<>>,
                                except |-> "Exception"]
                          ELSE IF relations_data.json # "list"
                          THEN [entities |-> es.list, relations |-> <<>>,
                                except |-> "Exception"]
                          ELSE LET rs == ParseRelations(relations_data.items, source_text)
                               IN  [entities |-> es.list, relations |-> rs.list,
                                    except |-> IF rs.raised THEN "Exception" ELSE "none"]

(***************************************************************************)
(* _extract_from_chunk: the ExtractionResult of one chunk, given what the  *)
(* generation call did.  Error messages are given in English:              *)
(*   "model call failed"  for the message of a response that reports       *)
(*                        failure,                                         *)
(*   "exception"          for str(e) of a raised error.                    *)
(***************************************************************************)
_extract_from_chunk(chunk_text, response) ==
    IF response.raised
    THEN [entities |-> <<>>, relations |-> <<>>, success |-> FALSE,
          error_message |-> "exception", except |-> "none"]
    ELSE IF ~response.success
    THEN [entities |-> <<>>, relations |-> <<>>, success |-> FALSE,
          error_message |-> "model call failed", except |-> "none"]
    ELSE LET parsed == _parse_model_response(response.content, chunk_text)
         IN  [entities |-> parsed.entities, relations |-> parsed.relations,
              success |-> TRUE, error_message |-> "", except |-> parsed.except]

(***************************************************************************)
(* extract_from_text.  Error messages in English: "Schema not loaded" and  *)
(* "all chunks failed".                                                    *)
(***************************************************************************)
ExtractInit ==
    /\ schema \in {"loaded", "none"}
    /\ extract_pc = "call"
    /\ text \in UNION {[1..n -> Alphabet] : n \in 0..DocMaxLen}
    /\ chunk_size = DocChunkSize
    /\ chunk_overlap \in 0..1
    /\ start = 0
    /\ chunks = <<>>
    /\ split_pc = "idle"
    /\ chunk_index = 0
    /\ last_call = "none"
    /\ all_entities = <<>>
    /\ all_relations = <<>>
    /\ success_count = 0
    /\ parse_failures = 0
    /\ generate_calls = 0
    /\ result = "none"
    /\ MergeIdle
    /\ QAIdle

\* if not schema: return ExtractionResult(..., success=False, ...)
ExtractNoSchema ==
    /\ extract_pc = "call"
    /\ schema = "none"
    /\ result' = [entities |-> <<>>, relations |-> <<>>, success |-> FALSE,
                  error_message |-> "Schema not loaded", metadata |-> "none"]
    /\ extract_pc' = "returned"
    /\ UNCHANGED <<schema, chunk_index, last_call, all_entities, all_relations,
                   success_count, parse_failures, generate_calls,
                   split_vars, merge_vars, qa_vars>>

\* the call of _split_text without the `if not schema` return before it
ExtractCallSplitNoSchemaCheck ==
    /\ extract_pc = "call"
    /\ split_pc = "idle"
    /\ split_pc' = "call"
    /\ extract_pc' = "chunks"
    /\ UNCHANGED <<schema, chunk_index, last_call, all_entities, all_relations,
                   success_count, parse_failures, generate_calls, result,
                   text, chunk_size, chunk_overlap, start, chunks, merge_vars, qa_vars>>

\* chunks = self._split_text(text): the call; the Split actions run it
ExtractCallSplit ==
    /\ extract_pc = "call"
    /\ schema = "loaded"
    /\ split_pc = "idle"
    /\ split_pc' = "call"
    /\ extract_pc' = "chunks"
    /\ UNCHANGED <<schema, chunk_index, last_call, all_entities, all_relations,
                   success_count, parse_failures, generate_calls, result,
                   text, chunk_size, chunk_overlap, start, chunks, merge_vars, qa_vars>>

\* one iteration of `for i, chunk in enumerate(chunks)`
ExtractChunk ==
    /\ extract_pc = "chunks"
    /\ split_pc = "done"
    /\ chunk_index < Len(chunks)
    /\ \E response \in Responses :
         LET chunk        == chunks[chunk_index + 1].text
             chunk_result == _extract_from_chunk(chunk, response)
         IN  /\ last_call' = [response |-> response, chunk_result |-> chunk_result]
             /\ generate_calls' = generate_calls + 1
             /\ parse_failures' =
                    parse_failures + (IF chunk_result.except # "none" THEN 1 ELSE 0)
             /\ IF chunk_result.success
                THEN /\ all_entities' = all_entities \o chunk_result.entities
                     /\ all_relations' = all_relations \o chunk_result.relations
                     /\ success_count' = success_count + 1
                ELSE UNCHANGED <<all_entities, all_relations, success_count>>
    /\ chunk_index' = chunk_index + 1
    /\ UNCHANGED <<schema, extract_pc, result, split_vars, merge_vars, qa_vars>>

\* entity.name.lower() / relation.source.lower() / relation.target.lower() in
\* the merge keys raises AttributeError on a name that is no str
MergeRaises(entities, relations) ==
    \/ \E i \in 1..Len(entities) : ~IsStr(entities[i].name)
    \/ \E i \in 1..Len(relations) :
          ~IsStr(relations[i].source) \/ ~IsStr(relations[i].target)

\* after the loop: merge, and return the ExtractionResult; an error raised by
\* the merge ends in `except Exception`, whose message is str(e)
ExtractReturn ==
    /\ extract_pc = "chunks"
    /\ split_pc = "done"
    /\ chunk_index = Len(chunks)
    /\ LET overall_success == success_count > 0
       IN  result' =
             IF MergeRaises(all_entities, all_relations)
             THEN [entities |-> <<>>, relations |-> <<>>, success |-> FALSE,
                   error_message |-> "exception", metadata |-> "none"]
             ELSE
             [entities      |-> _merge_entities(all_entities),
              relations     |-> _merge_relations(all_relations),
              success       |-> overall_success,
              error_message |-> IF overall_success THEN "" ELSE "all chunks failed",
              metadata      |-> [chunks_count  |-> Len(chunks),
                                 success_chunks |-> success_count,
                                 entities_before_merge |-> Len(all_entities),
                                 relations_before_merge |-> Len(all_relations)]]
    /\ extract_pc' = "returned"
    /\ UNCHANGED <<schema, chunk_index, last_call, all_entities, all_relations,
                   success_count, parse_failures, generate_calls,
                   split_vars, merge_vars, qa_vars>>

Init == ExtractInit

Next ==
    \/ ExtractNoSchema
    \/ ExtractCallSplit
    \/ SplitShort
    \/ SplitEnter
    \/ SplitLast
    \/ SplitAtMarker
    \/ SplitHardCut
    \/ ExtractChunk
    \/ ExtractReturn

Spec == Init /\ [][Next]_vars

(***************************************************************************)
(* graphrag_qa.py.  Texts are sequences of characters; the question is     *)
(* given as its whitespace-separated tokens.  The stop words of the        *)
(* program are Chinese words; <<"w", "h">> stands for one of them.         *)
(***************************************************************************)
RawTokens ==
    { <<"a", "b">>, <<"A", "b">>, <<"b">>, <<"w", "h">>,
      <<"b", "?">>, <<"a", "b", "?">> }

Questions == UNION { [1..n -> RawTokens] : n \in 0..MaxTokens }

stop_words == { <<"w", "h">> }

\* question.replace("?", "").split(): the tokens without their question
\* marks; a token made of question marks only leaves no word
RECURSIVE Words(_)
Words(q) ==
    IF q = <<>> THEN <<>>
    ELSE LET w == SelectSeq(Head(q), LAMBDA c : c # "?")
         IN  (IF w = <<>> THEN <<>> ELSE <<w>>) \o Words(Tail(q))

_extract_keywords_from_question(q) ==
    LET keywords == SelectSeq(Words(q), LAMBDA w : Len(w) > 1 /\ w \notin stop_words)
    IN  SubSeq(keywords, 1, Min2(5, Len(keywords)))

LowerChar(c) ==
    CASE c = "A" -> "a"
      [] c = "B" -> "b"
      [] OTHER -> c

\* str.lower()
LowerStr(w) == [i \in 1..Len(w) |-> LowerChar(w[i])]

\* k in d, for strings
Contains(d, k) ==
    \E i \in 0..(Len(d) - Len(k)) : SubSeq(d, i + 1, i + Len(k)) = k

\* k in topics, for a list
InList(k, topics) == \E i \in 1..Len(topics) : topics[i] = k

\* the records of the CommunitySummary query
AllSummaries ==
    << [community_id |-> 1, description |-> <<"A", "B", "c">>,
        main_topics |-> << <<"a", "b">> >>],
       [community_id |-> 2, description |-> <<"c">>,
        main_topics |-> << <<"A", "b">>, <<"a", "b">> >>],
       [community_id |-> 3, description |-> <<"a", "b">>, main_topics |-> <<>>],
       [community_id |-> 4, description |-> <<"c", "d">>, main_topics |-> <<>>],
       [community_id |-> 5, description |-> <<"b", "a", "b">>,
        main_topics |-> << <<"A", "b">> >>] >>

\* what neo4j_manager.execute_query does in _get_all_community_summaries
CatalogOutcomes ==
    { [raised |-> TRUE, records |-> <<>>] } \cup
    { [raised |-> FALSE, records |-> SubSeq(AllSummaries, 1, n)] :
        n \in {0, 2, Min2(MaxCatalog, Len(AllSummaries))} }

\* that loop with the description test made on the strings as they are,
\* without lower()
RECURSIVE KeywordScoreCaseSensitive(_, _)
KeywordScoreCaseSensitive(summary, keywords) ==
    IF keywords = <<>> THEN 0
    ELSE (IF Contains(summary.description, Head(keywords)) THEN 3 ELSE 0)
         + (IF InList(Head(keywords), summary.main_topics) THEN 5 ELSE 0)
         + KeywordScoreCaseSensitive(summary, Tail(keywords))

\* the for loop over keywords: score += 0.3 / score += 0.5, in tenths
RECURSIVE KeywordScore(_, _)
KeywordScore(summary, keywords) ==
    IF keywords = <<>> THEN 0
    ELSE (IF Contains(LowerStr(summary.description), LowerStr(Head(keywords)))
          THEN 3 ELSE 0)
         + (IF InList(Head(keywords), summary.main_topics) THEN 5 ELSE 0)
         + KeywordScore(summary, Tail(keywords))

\* the for loop over summaries
RECURSIVE MatchCommunities(_, _)
MatchCommunities(summaries, keywords) ==
    IF summaries = <<>> THEN <<>>
    ELSE LET score == KeywordScore(Head(summaries), keywords)
         IN  (IF score > 0
              THEN << [community_id    |-> Head(summaries).community_id,
                       relevance_score |-> Min2(score, 10),
                       reason          |-> "keyword match"] >>
              ELSE <<>>)
             \o MatchCommunities(Tail(summaries), keywords)

\* sorted() that leaves the list as it is
SortedByScoreUnsorted(list) == list

\* sorted(list, key=relevance_score, reverse=True): stable, so an element
\* goes behind the elements before it whose score is at least its own
RECURSIVE SortedByScore(_)
SortedByScore(list) ==
    IF list = <<>> THEN <<>>
    ELSE LET front == SortedByScore(SubSeq(list, 1, Len(list) - 1))
             x     == list[Len(list)]
             n     == Cardinality({ i \in 1..Len(front) :
                                      front[i].relevance_score >= x.relevance_score })
         IN  SubSeq(front, 1, n) \o <<x>> \o SubSeq(front, n + 1, Len(front))

_keyword_based_community_matching(q, summaries) ==
    SortedByScore(MatchCommunities(summaries, _extract_keywords_from_question(q)))

\* an element of the array the ranking prompt asks for
RankItem(id, score) ==
    JsonObject([community_id |-> id, relevance_score |-> score, reason |-> "r"])

RankPayloads ==
    { NotJson,
      JsonNumber,
      JsonObject([communities |-> JsonList(<<RankItem(1, 9)>>)]),
      JsonList(<<>>),
      JsonList(<<RankItem(2, 6), RankItem(1, 9)>>),
      JsonList(<<RankItem(1, 9), RankItem(2, 3), RankItem(3, 4)>>),
      JsonList(<<RankItem(2, 15), RankItem(1, 9)>>),
      JsonList(<<RankItem(1, 9), JsonString>>),
      JsonList(<<JsonObject([community_id |-> 1, reason |-> "r"]), RankItem(2, 6)>>),
      JsonList(<<JsonObject([relevance_score |-> 9, reason |-> "r"])>>),
      JsonList(<<RankItem(1, 6), RankItem(2, 9), RankItem(3, 9), RankItem(4, 8)>>) }

\* what generate_response(relevance_prompt) does: raise, or return a dict
RankResponses ==
    { [raised |-> TRUE, success |-> FALSE, content |-> "none"],
      [raised |-> FALSE, success |-> FALSE, content |-> "none"],
      [raised |-> FALSE, success |-> TRUE,
       content |-> [fenced |-> TRUE, prose |-> FALSE,
                    payload |-> JsonList(<<RankItem(1, 9)>>)]] } \cup
    { [raised |-> FALSE, success |-> TRUE,
       content |-> [fenced |-> FALSE, prose |-> FALSE, payload |-> d]] :
        d \in RankPayloads }

\* json.loads(response["response"]): the whole text, fence and prose included
JsonLoadsWhole(content) ==
    IF content.fenced \/ content.prose THEN NotJson ELSE content.payload

\* an external call: the collaborator's operation, its argument (a community
\* id, or the number of the keyword searched for) and, for the requests whose
\* outcome the trace keeps, what the collaborator did
Call(name, arg, outcome) == [call |-> name, arg |-> arg, outcome |-> outcome]

\* the list comprehension and the sort of the primary path; item.get raises
\* on an element that is no dict, iteration raises on a number
PrimaryRanking(relevance_data) ==
    IF relevance_data.json # "list"
    THEN [raised |-> TRUE, relevant |-> <<>>]
    ELSE IF \E i \in 1..Len(relevance_data.items) :
                relevance_data.items[i].json # "object"
    THEN [raised |-> TRUE, relevant |-> <<>>]
    ELSE LET kept == SelectSeq(relevance_data.items,
                         LAMBDA item : DictGet(item.members, "relevance_score", 0) > 3)
         IN  [raised   |-> FALSE,
              relevant |-> SortedByScore([i \in 1..Len(kept) |-> kept[i].members])]

\* the list returned, the path that produced it and the external calls made
_find_relevant_communities(q, cat, response) ==
    LET query    == <<Call("execute_query:summaries", 0,
                           IF cat.raised THEN "raise" ELSE "ok")>>
        generate == <<Call("generate:ranking", 0,
                           IF response.raised THEN "raise"
                           ELSE IF response.success THEN "ok" ELSE "fail")>>
        fallback == [relevant |-> _keyword_based_community_matching(q, cat.records),
                     path |-> "fallback", calls |-> query \o generate]
    IN  IF cat.raised \/ cat.records = <<>>
        THEN [relevant |-> <<>>, path |-> "no_catalog", calls |-> query]
        ELSE IF response.raised
        THEN [relevant |-> <<>>, path |-> "except", calls |-> query \o generate]
        ELSE IF ~response.success
        THEN fallback
        ELSE LET relevance_data == JsonLoadsWhole(response.content)
             IN  IF relevance_data.json = "invalid"
                 THEN fallback
                 ELSE LET primary == PrimaryRanking(relevance_data)
                      IN  IF primary.raised
                          THEN [relevant |-> <<>>, path |-> "except",
                                calls |-> query \o generate]
                          ELSE [relevant |-> primary.relevant, path |-> "primary",
                                calls |-> query \o generate]

NoRankResponse == [raised |-> FALSE, success |-> FALSE, content |-> "none"]

\* relevant_communities = self._find_relevant_communities(question)
FindRelevantCommunities ==
    /\ qa_pc = "call"
    /\ \E response \in RankResponses :
         LET r == _find_relevant_communities(question, catalog, response)
         IN  /\ relevant_communities' = r.relevant
             /\ rank_call' = [path     |-> r.path,
                              response |-> IF r.path = "no_catalog"
                                           THEN NoRankResponse ELSE response]
             /\ calls' = calls \o r.calls
    /\ qa_pc' = "ranked"
    /\ UNCHANGED <<question, search_strategy, catalog, community_results,
                   global_answer, answer, community_contexts, strategy_runs,
                   last_env, qa_result, merge_vars, split_vars, extract_vars>>

\* _find_relevant_communities called for a question and a catalog
RankInit ==
    /\ question \in Questions
    /\ search_strategy = "none"
    /\ catalog \in CatalogOutcomes
    /\ qa_pc = "call"
    /\ rank_call = "none"
    /\ relevant_communities = <<>>
    /\ community_results = <<>>
    /\ global_answer = <<>>
    /\ answer = <<>>
    /\ community_contexts = <<>>
    /\ calls = <<>>
    /\ strategy_runs = [community_first |-> 0, global_first |-> 0, synthesis |-> 0]
    /\ last_env = <<>>
    /\ qa_result = <<>>
    /\ MergeIdle
    /\ SplitIdle
    /\ ExtractIdle

RankNext == FindRelevantCommunities

SpecRank == RankInit /\ [][RankNext]_vars

(***************************************************************************)
(* The search strategies.  An answer text is modelled by where it comes    *)
(* from: the apology of _global_first_search, or the text generated in     *)
(* answer to the request at a given position of the sequence of external   *)
(* calls.  A generated text is taken to be non-empty.                      *)
(***************************************************************************)
Strategies == {"community_first", "global_first", "hybrid"}

\* what generate_response does for an answer or a synthesis prompt: return
\* {"success": True, ...}, return {"success": False, ...}, or raise
AnswerOutcomes == {"ok", "fail", "raise"}

\* what neo4j_manager.execute_query does in _search_global_graph
GraphOutcomes == {"ok", "raise"}

\* what get_community_summary and get_community_subgraph do for a community
FetchOutcomes ==
    { [summary |-> s, subgraph |-> g] :
        s \in {"ok", "fail"}, g \in {"ok", "fail", "raise"} } \cup
    { [summary |-> "raise", subgraph |-> "ok"] }

FetchedFine == [summary |-> "ok", subgraph |-> "ok"]

Generated(prompt, position) ==
    [text |-> "generated", prompt |-> prompt, request |-> position]

Apology == [text |-> "apology", prompt |-> "none", request |-> 0]

Source(kind, id) == [kind |-> kind, id |-> id]

NoRuns == [community_first |-> 0, global_first |-> 0, synthesis |-> 0]

\* that dict without a confidence: answer_question then takes 0.5
FallbackAnswerDefaultConfidence ==
    [response |-> Apology, sources |-> <<>>, confidence |-> 5, method |-> "fallback"]

\* the dict returned by the except branch of _global_first_search
FallbackAnswer ==
    [response |-> Apology, sources |-> <<>>, confidence |-> 1, method |-> "fallback"]

\* _search_global_graph: one query per keyword; an error raised by a query
\* is caught there and ends the search with no results
_search_global_graph(q, graph) ==
    LET keywords == _extract_keywords_from_question(q)
    IN  IF graph = "raise"
        THEN (IF keywords = <<>> THEN <<>>
              ELSE <<Call("execute_query:search", 1, "raise")>>)
        ELSE [i \in 1..Len(keywords) |-> Call("execute_query:search", i, "ok")]

\* the try block of _global_first_search
GlobalFirstSearchBody(q, trace, graph, gens) ==
    LET outcome == Head(gens)
        called  == trace \o _search_global_graph(q, graph)
                         \o <<Call("generate:global", 0, outcome)>>
    IN  [raised   |-> outcome # "ok",
         answer   |-> [response   |-> Generated("global", Len(called)),
                       sources    |-> <<Source("global", 0)>>,
                       confidence |-> 6,
                       method     |-> "global_first"],
         calls    |-> called,
         gens     |-> Tail(gens),
         contexts |-> <<>>,
         fetched  |-> 0,
         runs     |-> [NoRuns EXCEPT !.global_first = 1]]

\* _global_first_search without its except branch
GlobalFirstSearchNoExcept(q, trace, graph, gens) ==
    GlobalFirstSearchBody(q, trace, graph, gens)

\* _global_first_search with an except branch that asks for the answer once
\* more before it gives the apology
GlobalFirstSearchAsksAgain(q, trace, graph, gens) ==
    LET body == GlobalFirstSearchBody(q, trace, graph, gens)
    IN  IF body.raised
        THEN [body EXCEPT !.raised = FALSE,
                          !.answer = FallbackAnswer,
                          !.calls = Append(body.calls,
                                           Call("generate:global", 0, "fail"))]
        ELSE body

\* _global_first_search
GlobalFirstSearch(q, trace, graph, gens) ==
    LET body == GlobalFirstSearchBody(q, trace, graph, gens)
    IN  IF body.raised
        THEN [body EXCEPT !.raised = FALSE, !.answer = FallbackAnswer]
        ELSE body

\* that loop without `if summary["success"]`: a context for every community
\* it reaches
RECURSIVE FetchContextsAnySummary(_, _, _, _)
FetchContextsAnySummary(top, fetch, i, st) ==
    IF i > Len(top) \/ st.raised THEN st
    ELSE IF "community_id" \notin DOMAIN top[i]
    THEN \* comm["community_id"] raises KeyError
         [st EXCEPT !.raised = TRUE]
    ELSE
    LET community_id  == top[i].community_id
        after_summary ==
            Append(st.calls, Call("get_community_summary", community_id,
                                  fetch[i].summary))
        after_subgraph ==
            Append(after_summary, Call("get_community_subgraph", community_id, ""))
        appended ==
            Append(st.contexts,
                   [community_id |-> community_id,
                    relevance    |-> DictGet(top[i], "relevance_score", 0),
                    subgraph     |-> 0])
    IN  IF fetch[i].summary = "raise"
        THEN [contexts |-> st.contexts, calls |-> after_summary,
              raised |-> TRUE, fetched |-> i]
        ELSE IF fetch[i].subgraph = "raise"
        THEN [contexts |-> appended, calls |-> after_subgraph,
              raised |-> TRUE, fetched |-> i]
        ELSE IF fetch[i].subgraph = "fail"
        THEN FetchContextsAnySummary(top, fetch, i + 1,
                 [contexts |-> appended, calls |-> after_subgraph,
                  raised |-> FALSE, fetched |-> i])
        ELSE IF appended = <<>>
        THEN \* community_contexts[-1] raises IndexError
             [contexts |-> appended, calls |-> after_subgraph,
              raised |-> TRUE, fetched |-> i]
        ELSE \* community_contexts[-1]["subgraph"] = subgraph
             FetchContextsAnySummary(top, fetch, i + 1,
                 [contexts |-> [appended EXCEPT ![Len(appended)].subgraph = community_id],
                  calls |-> after_subgraph, raised |-> FALSE, fetched |-> i])

\* the for loop of _community_first_search over top_communities, from the
\* i-th on; st holds community_contexts, the calls made, whether an error
\* was raised, and how many communities the loop has reached
RECURSIVE FetchContexts(_, _, _, _)
FetchContexts(top, fetch, i, st) ==
    IF i > Len(top) \/ st.raised THEN st
    ELSE IF "community_id" \notin DOMAIN top[i]
    THEN \* comm["community_id"] raises KeyError
         [st EXCEPT !.raised = TRUE]
    ELSE
    LET community_id  == top[i].community_id
        after_summary ==
            Append(st.calls, Call("get_community_summary", community_id,
                                  fetch[i].summary))
        after_subgraph ==
            Append(after_summary, Call("get_community_subgraph", community_id, ""))
        appended ==
            IF fetch[i].summary = "ok"
            THEN Append(st.contexts,
                        [community_id |-> community_id,
                         relevance    |-> DictGet(top[i], "relevance_score", 0),
                         subgraph     |-> 0])
            ELSE st.contexts
    IN  IF fetch[i].summary = "raise"
        THEN [contexts |-> st.contexts, calls |-> after_summary,
              raised |-> TRUE, fetched |-> i]
        ELSE IF fetch[i].subgraph = "raise"
        THEN [contexts |-> appended, calls |-> after_subgraph,
              raised |-> TRUE, fetched |-> i]
        ELSE IF fetch[i].subgraph = "fail"
        THEN FetchContexts(top, fetch, i + 1,
                 [contexts |-> appended, calls |-> after_subgraph,
                  raised |-> FALSE, fetched |-> i])
        ELSE IF appended = <<>>
        THEN \* community_contexts[-1] raises IndexError
             [contexts |-> appended, calls |-> after_subgraph,
              raised |-> TRUE, fetched |-> i]
        ELSE \* community_contexts[-1]["subgraph"] = subgraph
             FetchContexts(top, fetch, i + 1,
                 [contexts |-> [appended EXCEPT ![Len(appended)].subgraph = community_id],
                  calls |-> after_subgraph, raised |-> FALSE, fetched |-> i])

\* the results of two pieces of one call, put together
Joined(first, second) ==
    [second EXCEPT !.contexts = first.contexts,
                   !.fetched = first.fetched,
                   !.runs = [k \in DOMAIN NoRuns |-> first.runs[k] + second.runs[k]]]

\* the try block of _community_first_search after the test for an empty
\* list, and the except branch behind it
CommunityFirstSearchBody(q, relevant, trace, fetch, graph, gens) ==
    LET top_communities == SubSeq(relevant, 1, Min2(3, Len(relevant)))
        loop == FetchContexts(top_communities, fetch, 1,
                    [contexts |-> <<>>, calls |-> trace, raised |-> FALSE,
                     fetched |-> 0])
        run  == [contexts |-> loop.contexts, fetched |-> loop.fetched,
                 runs |-> [NoRuns EXCEPT !.community_first = 1]]
    IN  IF loop.raised
        THEN Joined(run, GlobalFirstSearch(q, loop.calls, graph, gens))
        ELSE LET outcome == Head(gens)
                 called  == Append(loop.calls, Call("generate:community", 0, outcome))
             IN  IF outcome = "ok"
                 THEN [raised   |-> FALSE,
                       answer   |->
                         [response   |-> Generated("community", Len(called)),
                          sources    |-> [i \in 1..Len(loop.contexts) |->
                                            Source("community",
                                                   loop.contexts[i].community_id)],
                          confidence |-> 8,
                          method     |-> "community_first"],
                       calls    |-> called,
                       gens     |-> Tail(gens),
                       contexts |-> loop.contexts,
                       fetched  |-> loop.fetched,
                       runs     |-> run.runs]
                 ELSE Joined(run, GlobalFirstSearch(q, called, graph, Tail(gens)))

\* _community_first_search without `if not relevant_communities`
CommunityFirstSearchNoEmptyTest(q, relevant, trace, fetch, graph, gens) ==
    CommunityFirstSearchBody(q, relevant, trace, fetch, graph, gens)

\* _community_first_search
CommunityFirstSearch(q, relevant, trace, fetch, graph, gens) ==
    IF relevant = <<>>
    THEN GlobalFirstSearch(q, trace, graph, gens)
    ELSE CommunityFirstSearchBody(q, relevant, trace, fetch, graph, gens)

\* sources left as the two lists put together, without list(set(...))
DeduplicatedKeepsAll(list) == list

\* list(set(sources)); the order of the result is not fixed by the program,
\* the model keeps the first occurrences in their order
RECURSIVE Deduplicated(_)
Deduplicated(list) ==
    IF list = <<>> THEN <<>>
    ELSE LET front == Deduplicated(SubSeq(list, 1, Len(list) - 1))
             x     == list[Len(list)]
         IN  IF \E i \in 1..Len(front) : front[i] = x THEN front
             ELSE Append(front, x)

\* the single result returned when the synthesis reports failure, with >=
\* for >
BestSinglePrefersCommunity(results, global) ==
    IF results # <<>> /\ results[1].confidence >= global.confidence
    THEN results[1]
    ELSE global

\* the single result returned when the synthesis reports failure
BestSingle(results, global) ==
    IF results # <<>> /\ results[1].confidence > global.confidence
    THEN results[1]
    ELSE global

\* the except branch of _hybrid_search; a collaborator that has raised
\* through the whole script keeps raising
HybridExcept(q, trace, graph, gens) ==
    GlobalFirstSearch(q, trace, graph, IF gens = <<>> THEN <<"raise">> ELSE gens)

\* _hybrid_search from the synthesis prompt on, the synthesized answer given
\* the confidence of the global sub-result in place of 0.7
SynthesisGlobalConfidence(q, results, global, trace, graph, gens) ==
    LET outcome == Head(gens)
        called  == Append(trace, Call("generate:synthesis", 0, outcome))
        base    == [raised |-> FALSE, answer |-> global, calls |-> called,
                    gens |-> Tail(gens), contexts |-> <<>>, fetched |-> 0,
                    runs |-> [NoRuns EXCEPT !.synthesis = 1]]
    IN  IF outcome = "ok"
        THEN [base EXCEPT !.answer =
                 [response   |-> Generated("synthesis", Len(called)),
                  sources    |-> Deduplicated(
                                    (IF results # <<>> THEN results[1].sources
                                     ELSE <<>>) \o global.sources),
                  confidence |-> global.confidence,
                  method     |-> "hybrid"]]
        ELSE IF outcome = "fail"
        THEN [base EXCEPT !.answer = BestSingle(results, global)]
        ELSE Joined(base, HybridExcept(q, called, graph, Tail(gens)))

\* _hybrid_search from the synthesis prompt on
Synthesis(q, results, global, trace, graph, gens) ==
    LET outcome == Head(gens)
        called  == Append(trace, Call("generate:synthesis", 0, outcome))
        base    == [raised |-> FALSE, answer |-> global, calls |-> called,
                    gens |-> Tail(gens), contexts |-> <<>>, fetched |-> 0,
                    runs |-> [NoRuns EXCEPT !.synthesis = 1]]
    IN  IF outcome = "ok"
        THEN [base EXCEPT !.answer =
                 [response   |-> Generated("synthesis", Len(called)),
                  sources    |-> Deduplicated(
                                    (IF results # <<>> THEN results[1].sources
                                     ELSE <<>>) \o global.sources),
                  confidence |-> 7,
                  method     |-> "hybrid"]]
        ELSE IF outcome = "fail"
        THEN [base EXCEPT !.answer = BestSingle(results, global)]
        ELSE Joined(base, HybridExcept(q, called, graph, Tail(gens)))

(***************************************************************************)
(* answer_question as a state machine: the ranking, then the strategy the  *)
(* caller selected; _hybrid_search takes its three steps one by one.  The  *)
(* collaborators' outcomes are drawn at each step; an outcome that no call *)
(* of the step consumes is fixed, since it cannot be observed.             *)
(***************************************************************************)
QAQuestions ==
    { <<>>,
      << <<"a", "b">> >>,
      << <<"A", "b">>, <<"a", "b", "?">> >> }

Unused(r, fetch, graph, gens, q) ==
    /\ \A i \in DOMAIN fetch : i > r.fetched => fetch[i] = FetchedFine
    /\ \A i \in 1..Len(gens) : i > Len(gens) - Len(r.gens) => gens[i] = "ok"
    /\ (r.runs.global_first = 0 \/ _extract_keywords_from_question(q) = <<>>)
          => graph = "ok"

\* what a strategy step leaves behind, whatever the step
Took(r, graph, gens) ==
    /\ calls' = r.calls
    /\ community_contexts' = r.contexts
    /\ strategy_runs' = [k \in DOMAIN NoRuns |-> strategy_runs[k] + r.runs[k]]
    /\ last_env' = <<[before |-> calls, graph |-> graph, gens |-> gens]>>

QAInit ==
    /\ question \in QAQuestions
    /\ search_strategy \in Strategies
    /\ catalog \in CatalogOutcomes
    /\ qa_pc = "call"
    /\ rank_call = "none"
    /\ relevant_communities = <<>>
    /\ community_results = <<>>
    /\ global_answer = <<>>
    /\ answer = <<>>
    /\ community_contexts = <<>>
    /\ calls = <<>>
    /\ strategy_runs = NoRuns
    /\ last_env = <<>>
    /\ qa_result = <<>>
    /\ MergeIdle
    /\ SplitIdle
    /\ ExtractIdle

\* answer = self._community_first_search(question, relevant_communities)
AnswerCommunityFirst ==
    /\ qa_pc = "ranked"
    /\ search_strategy = "community_first"
    /\ \E fetch \in [1..Min2(3, Len(relevant_communities)) -> FetchOutcomes],
          graph \in GraphOutcomes, gens \in [1..2 -> AnswerOutcomes] :
         LET r == CommunityFirstSearch(question, relevant_communities, calls,
                                       fetch, graph, gens)
         IN  /\ Unused(r, fetch, graph, gens, question)
             /\ Took(r, graph, gens)
             /\ answer' = <<r.answer>>
             /\ qa_pc' = IF r.raised THEN "raised" ELSE "answered"
    /\ UNCHANGED <<question, search_strategy, catalog, rank_call,
                   relevant_communities, community_results, global_answer,
                   qa_result, merge_vars, split_vars, extract_vars>>

\* answer = self._global_first_search(question)
AnswerGlobalFirst ==
    /\ qa_pc = "ranked"
    /\ search_strategy = "global_first"
    /\ \E graph \in GraphOutcomes, gens \in [1..1 -> AnswerOutcomes] :
         LET r == GlobalFirstSearch(question, calls, graph, gens)
         IN  /\ Unused(r, <<>>, graph, gens, question)
             /\ Took(r, graph, gens)
             /\ answer' = <<r.answer>>
             /\ qa_pc' = IF r.raised THEN "raised" ELSE "answered"
    /\ UNCHANGED <<question, search_strategy, catalog, rank_call,
                   relevant_communities, community_results, global_answer,
                   qa_result, merge_vars, split_vars, extract_vars>>

\* _hybrid_search: if relevant_communities: community_results.append(...)
HybridCommunity ==
    /\ qa_pc = "ranked"
    /\ search_strategy = "hybrid"
    /\ relevant_communities # <<>>
    /\ \E fetch \in [1..Min2(3, Len(relevant_communities)) -> FetchOutcomes],
          graph \in GraphOutcomes, gens \in [1..2 -> AnswerOutcomes] :
         LET r == CommunityFirstSearch(question, relevant_communities, calls,
                                       fetch, graph, gens)
             e == Joined(r, HybridExcept(question, r.calls, graph, r.gens))
         IN  /\ Unused(r, fetch, graph, gens, question)
             /\ IF r.raised
                THEN /\ Took(e, graph, gens)
                     /\ answer' = <<e.answer>>
                     /\ qa_pc' = IF e.raised THEN "raised" ELSE "answered"
                     /\ UNCHANGED community_results
                ELSE /\ Took(r, graph, gens)
                     /\ community_results' = <<r.answer>>
                     /\ qa_pc' = "hybrid_community"
                     /\ UNCHANGED answer
    /\ UNCHANGED <<question, search_strategy, catalog, rank_call,
                   relevant_communities, global_answer, qa_result,
                   merge_vars, split_vars, extract_vars>>

\* _hybrid_search: global_answer = self._global_first_search(question)
HybridGlobal ==
    /\ search_strategy = "hybrid"
    /\ \/ qa_pc = "ranked" /\ relevant_communities = <<>>
       \/ qa_pc = "hybrid_community"
    /\ \E graph \in GraphOutcomes, gens \in [1..1 -> AnswerOutcomes] :
         LET r == GlobalFirstSearch(question, calls, graph, gens)
             e == Joined(r, HybridExcept(question, r.calls, graph, r.gens))
         IN  /\ Unused(r, <<>>, graph, gens, question)
             /\ IF r.raised
                THEN /\ Took(e, graph, gens)
                     /\ answer' = <<e.answer>>
                     /\ qa_pc' = IF e.raised THEN "raised" ELSE "answered"
                     /\ UNCHANGED global_answer
                ELSE /\ Took(r, graph, gens)
                     /\ global_answer' = <<r.answer>>
                     /\ qa_pc' = "hybrid_global"
                     /\ UNCHANGED answer
    /\ UNCHANGED <<question, search_strategy, catalog, rank_call,
                   relevant_communities, community_results, qa_result,
                   merge_vars, split_vars, extract_vars>>

\* _hybrid_search: the synthesis request and what follows it
HybridSynthesis ==
    /\ qa_pc = "hybrid_global"
    /\ \E graph \in GraphOutcomes, gens \in [1..2 -> AnswerOutcomes] :
         LET r == Synthesis(question, community_results, global_answer[1],
                            calls, graph, gens)
         IN  /\ Unused(r, <<>>, graph, gens, question)
             /\ Took(r, graph, gens)
             /\ answer' = <<r.answer>>
             /\ qa_pc' = IF r.raised THEN "raised" ELSE "answered"
    /\ UNCHANGED <<question, search_strategy, catalog, rank_call,
                   relevant_communities, community_results, global_answer,
                   qa_result, merge_vars, split_vars, extract_vars>>

\* answer_question: the result dict, or the dict of its except branch when a
\* strategy let an error through
AnswerReturn ==
    /\ qa_pc \in {"answered", "raised"}
    /\ qa_result' =
         << IF qa_pc = "raised"
            THEN [success |-> FALSE, error |-> "exception"]
            ELSE [success              |-> TRUE,
                  question             |-> question,
                  answer               |-> answer[1].response,
                  strategy             |-> search_strategy,
                  relevant_communities |-> relevant_communities,
                  sources              |-> answer[1].sources,
                  confidence           |-> answer[1].confidence] >>
    /\ qa_pc' = "returned"
    /\ UNCHANGED <<question, search_strategy, catalog, rank_call,
                   relevant_communities, community_results, global_answer,
                   answer, community_contexts, calls, strategy_runs, last_env,
                   merge_vars, split_vars, extract_vars>>

QANext ==
    \/ FindRelevantCommunities
    \/ AnswerCommunityFirst
    \/ AnswerGlobalFirst
    \/ HybridCommunity
    \/ HybridGlobal
    \/ HybridSynthesis
    \/ AnswerReturn

SpecQA == QAInit /\ [][QANext]_vars

(***************************************************************************)
(* Properties of the merge.                                                *)
(***************************************************************************)
\* the identity key of the data model: (type, lowercase(name)) for an entity,
\* (type, lowercase(source), lowercase(target)) for a relation
IdentityKey(x) ==
    IF merge_fn = "_merge_entities"
    THEN <<x.type, Lower(x.name)>>
    ELSE <<x.type, Lower(x.source), Lower(x.target)>>

\* what the merge function returns for the list consumed so far
Output == DictValues([objects |-> objects, merged |-> merged])

\* the positions of the inputs that share the identity key of `x`
Group(x) == {i \in 1..Len(inputs) : IdentityKey(inputs[i]) = IdentityKey(x)}

MaxOf(S) == CHOOSE m \in S : \A n \in S : n <= m

\* C1: the surviving item's property-key set is the union of the property-key
\* sets of all inputs that share its identity key, whatever their confidences.
C1_KeyUnion ==
    LET out == Output
    IN  \A p \in 1..Len(out) :
            DOMAIN out[p].properties =
                UNION {DOMAIN inputs[i].properties : i \in Group(out[p])}

\* three inputs under one key, confidences falling then rising, and the
\* survivor holds the keys of two different inputs
C1_Witness ==
    /\ Len(inputs) = 3
    /\ Group(inputs[1]) = {1, 2, 3}
    /\ inputs[1].confidence > inputs[2].confidence
    /\ inputs[3].confidence > inputs[2].confidence
    /\ DOMAIN inputs[1].properties = {"title"}
    /\ DOMAIN inputs[2].properties = {"age"}
    /\ Len(Output) = 1
    /\ DOMAIN Output[1].properties = {"title", "age"}

C3_MaxConfidence ==
    \A p \in 1..Len(Output) :
        Output[p].confidence =
            MaxOf({inputs[i].confidence : i \in Group(Output[p])})

EntityA ==
    [type |-> "Person", name |-> "Bob",
     properties |-> [k \in {"title"} |-> "PM"], confidence |-> 9,
     source_text |-> <<>>]

EntityB ==
    [type |-> "Person", name |-> "Bob",
     properties |-> [k \in {"title"} |-> "Manager"], confidence |-> 5,
     source_text |-> <<>>]

Suppliers(x, k) == {i \in Group(x) : k \in DOMAIN inputs[i].properties}

\* C5 (as claimed): for a list of any length, a property key that several
\* duplicates supply ends with the value of the highest-confidence supplier.
C5_HighestSupplierWins ==
    \A p \in 1..Len(Output) :
        \A k \in DOMAIN Output[p].properties :
            LET S == Suppliers(Output[p], k)
                top == MaxOf({inputs[i].confidence : i \in S})
            IN  Cardinality(S) > 1 =>
                  \E i \in S :
                     /\ inputs[i].confidence = top
                     /\ Output[p].properties[k] = inputs[i].properties[k]

\* C5 (amended): when exactly two inputs share an identity key, a property
\* key that both supply ends with the value of the one with the higher
\* confidence, and with the earlier one's value when the confidences tie.
C5_PairHigherWins ==
    LET out == Output
    IN  \A p \in 1..Len(out) :
            LET group == Group(out[p])
            IN  \A i, j \in group :
                    (i < j /\ group = {i, j}) =>
                        \A k \in (DOMAIN inputs[i].properties) \cap
                                  (DOMAIN inputs[j].properties) :
                            out[p].properties[k] =
                                IF inputs[j].confidence > inputs[i].confidence
                                THEN inputs[j].properties[k]
                                ELSE inputs[i].properties[k]

\* two duplicates that disagree on "title", the later one more confident,
\* next to an item of another key
C5_Witness ==
    /\ Len(inputs) = 3
    /\ Len(Output) = 2
    /\ \E i, j \in 1..3 :
          /\ i < j
          /\ Group(inputs[i]) = {i, j}
          /\ "title" \in (DOMAIN inputs[i].properties) \cap (DOMAIN inputs[j].properties)
          /\ inputs[i].properties["title"] # inputs[j].properties["title"]
          /\ inputs[j].confidence > inputs[i].confidence
          /\ \E p \in 1..2 : /\ IdentityKey(Output[p]) = IdentityKey(inputs[j])
                             /\ Output[p].properties["title"] = inputs[j].properties["title"]

\* the merged result as the claim compares it: per key, values and confidence
Summary(out) ==
    {<<IdentityKey(out[p]), out[p].properties, out[p].confidence>> : p \in 1..Len(out)}

MergeOf(list) ==
    IF merge_fn = "_merge_entities" THEN _merge_entities(list) ELSE _merge_relations(list)

Reordered(perm) == [i \in 1..Len(inputs) |-> inputs[perm[i]]]

NoConfidenceTie ==
    \A i, j \in 1..Len(inputs) :
        (i # j /\ IdentityKey(inputs[i]) = IdentityKey(inputs[j])) =>
            inputs[i].confidence # inputs[j].confidence

\* C6: the merged result (key set, and each item's property values and
\* confidence) is the same for every order of the input list, unless two
\* colliding items have equal confidence.
C6_OrderIndependent ==
    NoConfidenceTie =>
        \A perm \in Permutations(1..Len(inputs)) :
            Summary(MergeOf(Reordered(perm))) = Summary(Output)

(***************************************************************************)
(* Properties of _split_text.                                              *)
(***************************************************************************)
\* 0 <= overlap < max_size
OverlapBelowSize == 0 <= chunk_overlap /\ chunk_overlap < chunk_size

\* position pos (1-based) of the text is a character of chunk c
Covers(c, pos) ==
    LET a == SliceIndex(c.start, Len(text))
        b == SliceIndex(c.stop, Len(text))
    IN  /\ a < pos
        /\ pos <= b
        /\ Len(c.text) = b - a
        /\ c.text[pos - a] = text[pos]

\* C7: with 0 <= overlap < max_size the returned chunks cover the text with
\* no gaps: the first chunk starts at offset 0, every later chunk starts at or
\* before the end offset of the chunk before it, the last chunk ends at
\* len(text), and every character of the text lies in some chunk.
C7_Coverage ==
    (split_pc = "done" /\ OverlapBelowSize) =>
        /\ Len(chunks) >= 1
        /\ chunks[1].start = 0
        /\ \A i \in 2..Len(chunks) : chunks[i].start <= chunks[i - 1].stop
        /\ chunks[Len(chunks)].stop = Len(text)
        /\ \A pos \in 1..Len(text) : \E i \in 1..Len(chunks) : Covers(chunks[i], pos)

\* a finished split with a cut at a marker, a hard cut and a positive overlap
C7_Witness ==
    /\ split_pc = "done"
    /\ chunk_overlap > 0
    /\ Len(chunks) >= 3
    /\ \E i \in 1..(Len(chunks) - 1) : chunks[i].stop - chunks[i].start < chunk_size
    /\ \E i \in 1..(Len(chunks) - 1) :
          /\ chunks[i].stop - chunks[i].start = chunk_size
          /\ \A j \in 1..Len(chunks[i].text) : chunks[i].text[j] = "a"

\* a finished split in which the cursor went below zero and an empty chunk
\* was emitted
NegativeCursorReturned ==
    /\ split_pc = "done"
    /\ \E i \in 1..Len(chunks) : chunks[i].start < 0 /\ chunks[i].text = <<>>

\* C8: with 0 <= overlap < max_size the cursor strictly increases on every
\* loop iteration, after a cut at a marker as well as after a hard cut (so
\* the loop terminates).
C8_CursorAdvances ==
    [][ (OverlapBelowSize /\ split_pc = "loop" /\ split_pc' = "loop") =>
            start' > start ]_vars

\* the overlap for which a cut at a marker still advances the cursor
OverlapSafe == OverlapBelowSize /\ chunk_overlap <= chunk_size \div 2 + 1

\* With 0 <= overlap < max_size and overlap <= max_size // 2 + 1 the cursor
\* does strictly increase on every loop iteration: the loop has emitted at
\* most `start` chunks while start < len(text), and it terminates.
SafeOverlapCursorAdvances ==
    /\ [][ (OverlapSafe /\ split_pc = "loop" /\ split_pc' = "loop") =>
              start' > start ]_vars
    /\ []( (OverlapSafe /\ split_pc = "loop") =>
              /\ Len(chunks) <= start
              /\ start < Len(text)
              /\ Len(chunks) < MaxChunks )

\* the largest safe overlap, after a cut at the earliest acceptable marker:
\* the cursor moved on by exactly one
SafeOverlapWitness ==
    /\ split_pc = "loop"
    /\ chunk_overlap = chunk_size \div 2 + 1
    /\ chunk_overlap < chunk_size
    /\ Len(chunks) >= 2
    /\ LET last == chunks[Len(chunks)]
       IN  /\ last.stop - last.start = chunk_size \div 2 + 2
           /\ start = last.start + 1

(***************************************************************************)
(* Properties of the extraction.                                           *)
(***************************************************************************)
\* C9: a chunk whose response fails structured parsing is a failed chunk: its
\* result is not a success and it is not added to success_count, so when
\* every chunk's response is malformed extract_from_text returns
\* success=false with the aggregate error message.
C9_MalformedChunkFails ==
    /\ chunk_index > 0 =>
          (last_call.chunk_result.except # "none" => ~last_call.chunk_result.success)
    /\ success_count + parse_failures <= chunk_index
    /\ (extract_pc = "returned" /\ schema = "loaded" /\ parse_failures = Len(chunks)) =>
          /\ ~result.success
          /\ result.error_message = "all chunks failed"

\* C10: a response that fails structured parsing in any way (no structured
\* data, structured data of the wrong shape, a malformed item after
\* well-formed ones) yields zero entities and zero relations.
C10_MalformedYieldsNothing ==
    chunk_index > 0 =>
        (last_call.chunk_result.except # "none" =>
            /\ last_call.chunk_result.entities = <<>>
            /\ last_call.chunk_result.relations = <<>>)

\* C11: extract_from_text returns success=true exactly when at least one
\* chunk's extraction succeeded (success_count > 0); when every chunk failed
\* it returns success=false with a non-empty error message.
C11_SuccessIffChunkSucceeded ==
    extract_pc = "returned" =>
        /\ result.success <=> (success_count > 0)
        /\ (success_count = 0 =>
              /\ ~result.success
              /\ result.error_message # "")

\* the part of C11 that holds: success is never reported without a
\* successful chunk, and a run without one ends in the aggregate error
AllChunksFailedIsFailure ==
    extract_pc = "returned" =>
        /\ (result.success => success_count > 0)
        /\ (success_count = 0 /\ schema = "loaded" =>
              /\ ~result.success
              /\ result.error_message = "all chunks failed")

\* C12: when get_schema() yields no schema, extract_from_text issues no
\* generation call at any point, and it returns success=false with empty
\* entity and relation lists and the schema-not-loaded error.
C12_NoSchemaNoCall ==
    schema = "none" =>
        /\ generate_calls = 0
        /\ extract_pc = "returned" =>
              /\ ~result.success
              /\ result.entities = <<>>
              /\ result.relations = <<>>
              /\ result.error_message = "Schema not loaded"

C12_Witness ==
    /\ schema = "none"
    /\ extract_pc = "returned"
    /\ text # <<>>
    /\ generate_calls = 0

(***************************************************************************)
(* Properties of answer_question.                                          *)
(***************************************************************************)
\* the calls of the trace that went to the given operation
CallsOf(name) == { i \in 1..Len(calls) : calls[i].call = name }

\* no answer request of COMMUNITY_FIRST has succeeded
CommunityPathFailed ==
    \A i \in CallsOf("generate:community") : calls[i].outcome # "ok"

\* GLOBAL_FIRST has asked for an answer, and never got one
GlobalGenerationFailed ==
    /\ CallsOf("generate:global") # {}
    /\ \A i \in CallsOf("generate:global") : calls[i].outcome # "ok"

IsTerminalFallback(r) ==
    /\ r.success
    /\ r.confidence = 1
    /\ r.sources = <<>>
    /\ r.answer = Apology

\* C13: whatever the entry strategy, when the community path and the
\* global-search generation call have both failed, answer_question returns
\* confidence 0.1, no sources and the apology text.
C13_TerminalFallback ==
    (qa_pc = "returned" /\ CommunityPathFailed /\ GlobalGenerationFailed)
        => IsTerminalFallback(qa_result[1])

\* C13, amended: the same for the calls in which no synthesis request
\* succeeded; a synthesis request that succeeds answers with confidence 0.7
\* whatever became of the two sub-results.
C13_FallbackUnlessSynthesized ==
    (/\ qa_pc = "returned"
     /\ CommunityPathFailed
     /\ GlobalGenerationFailed
     /\ \A i \in CallsOf("generate:synthesis") : calls[i].outcome # "ok")
        => IsTerminalFallback(qa_result[1])

C13_Witness ==
    /\ qa_pc = "returned"
    /\ search_strategy = "hybrid"
    /\ strategy_runs.community_first = 1
    /\ CallsOf("generate:community") # {}
    /\ CommunityPathFailed
    /\ Cardinality(CallsOf("generate:global")) = 2
    /\ GlobalGenerationFailed
    /\ \E i \in CallsOf("generate:synthesis") : calls[i].outcome = "fail"
    /\ IsTerminalFallback(qa_result[1])

\* C14: whatever the entry strategy and whatever the collaborators do (report
\* failure, or raise), answer_question returns a successful result that
\* carries a textual answer, generated or the apology; no error leaves a
\* strategy and no error result is returned.
C14_AlwaysAnswers ==
    /\ qa_pc # "raised"
    /\ qa_pc = "returned" =>
          /\ qa_result[1].success
          /\ qa_result[1].answer.text \in {"generated", "apology"}
          /\ qa_result[1].answer = answer[1].response

\* a hybrid call in which the community fetches raised before any answer
\* request, the graph search raised, and all three answer requests of
\* GLOBAL_FIRST and the synthesis request raised
C14_Witness ==
    /\ qa_pc = "returned"
    /\ search_strategy = "hybrid"
    /\ strategy_runs.community_first = 1
    /\ CallsOf("generate:community") = {}
    /\ \E i \in CallsOf("execute_query:search") : calls[i].outcome = "raise"
    /\ Cardinality(CallsOf("generate:global")) = 3
    /\ \A i \in CallsOf("generate:global") : calls[i].outcome = "raise"
    /\ \E i \in CallsOf("generate:synthesis") : calls[i].outcome = "raise"
    /\ qa_result[1].success
    /\ qa_result[1].answer = Apology

\* C15: with an empty ranked list _community_first_search gives, for the same
\* question and the same collaborator responses, exactly the result of
\* _global_first_search (text, sources, confidence, method) and issues
\* exactly the same external calls; the COMMUNITY_FIRST action does not run.
C15_EmptyListIsGlobalFirst ==
    (/\ search_strategy = "community_first"
     /\ qa_pc \in {"answered", "returned"}
     /\ relevant_communities = <<>>)
        => LET env    == last_env[1]
               global == GlobalFirstSearch(question, env.before, env.graph, env.gens)
           IN  /\ answer[1] = global.answer
               /\ calls = global.calls
               /\ strategy_runs = global.runs
               /\ community_contexts = <<>>

\* the ranking went through its primary path and kept no community; the
\* graph was then searched and GLOBAL_FIRST's request answered
C15_Witness ==
    /\ search_strategy = "community_first"
    /\ qa_pc = "answered"
    /\ relevant_communities = <<>>
    /\ rank_call.path = "primary"
    /\ CallsOf("execute_query:search") # {}
    /\ answer[1].response.text = "generated"
    /\ answer[1].response.prompt = "global"
    /\ answer[1].confidence = 6

\* _hybrid_search has just returned after a synthesis request that
\* reported failure
SynthesisFailed ==
    /\ search_strategy = "hybrid"
    /\ qa_pc = "answered"
    /\ global_answer # <<>>
    /\ last_env[1].gens[1] = "fail"

\* C16: when the synthesis request fails, _hybrid_search returns the
\* sub-result with the strictly higher confidence; when the two confidences
\* are equal it returns the community sub-result if one was computed, and
\* the global sub-result otherwise.
C16_BestSubResult ==
    SynthesisFailed =>
        LET global == global_answer[1]
        IN  IF community_results = <<>>
            THEN answer[1] = global
            ELSE LET community == community_results[1]
                 IN  /\ community.confidence > global.confidence
                          => answer[1] = community
                     /\ global.confidence > community.confidence
                          => answer[1] = global
                     /\ community.confidence = global.confidence
                          => answer[1] = community

\* C16, amended: the community sub-result is returned only when it was
\* computed and its confidence is strictly higher; in every other case, a
\* tie included, the global sub-result is returned.
C16_TieGoesToGlobal ==
    SynthesisFailed =>
        LET global == global_answer[1]
        IN  IF community_results = <<>>
            THEN answer[1] = global
            ELSE LET community == community_results[1]
                 IN  /\ community.confidence > global.confidence
                          => answer[1] = community
                     /\ community.confidence <= global.confidence
                          => answer[1] = global

\* a tie between two different texts: COMMUNITY_FIRST fell back to
\* GLOBAL_FIRST, which answered, and so did the hybrid's own GLOBAL_FIRST
C16_Witness ==
    /\ SynthesisFailed
    /\ community_results # <<>>
    /\ community_results[1].confidence = 6
    /\ global_answer[1].confidence = 6
    /\ community_results[1].response # global_answer[1].response
    /\ answer[1] = global_answer[1]

\* C17: within one answer_question call no strategy runs twice: the
\* COMMUNITY_FIRST action, the GLOBAL_FIRST action and the synthesis request
\* are each executed at most once.
C17_NoStrategyTwice ==
    /\ strategy_runs.community_first <= 1
    /\ strategy_runs.global_first <= 1
    /\ strategy_runs.synthesis <= 1

\* what does hold: COMMUNITY_FIRST and the synthesis request run at most
\* once, GLOBAL_FIRST at most three times, and more than once under hybrid
\* only
StrategyRunsBounded ==
    /\ strategy_runs.community_first <= 1
    /\ strategy_runs.synthesis <= 1
    /\ strategy_runs.global_first <= 3
    /\ strategy_runs.global_first > 1 => search_strategy = "hybrid"
    /\ strategy_runs.global_first = Cardinality(CallsOf("generate:global"))

(***************************************************************************)
(* Properties of the relevance ranking.                                    *)
(***************************************************************************)
\* the response is not the array of objects the prompt asks for
NotExpectedArray(data) ==
    \/ data.json # "list"
    \/ \E i \in 1..Len(data.items) : data.items[i].json # "object"

\* the primary ranking path failed: the request raised or reported failure,
\* or its response is no JSON or not the expected array
PrimaryFailed(response) ==
    \/ response.raised
    \/ ~response.success
    \/ NotExpectedArray(JsonLoadsWhole(response.content))

Ranked == qa_pc = "ranked" /\ rank_call.path # "no_catalog"

\* C18: with a non-empty catalog, whenever the primary ranking path fails,
\* _find_relevant_communities evaluates the keyword fallback and returns the
\* fallback's ranking.
C18_FallbackOnFailure ==
    (Ranked /\ PrimaryFailed(rank_call.response)) =>
        /\ rank_call.path = "fallback"
        /\ relevant_communities =
              _keyword_based_community_matching(question, catalog.records)

\* the failures that do reach the fallback: a request that reports failure,
\* and a response that is no JSON
FallbackOnReportedFailure ==
    (/\ Ranked
     /\ ~rank_call.response.raised
     /\ \/ ~rank_call.response.success
        \/ JsonLoadsWhole(rank_call.response.content).json = "invalid") =>
        /\ rank_call.path = "fallback"
        /\ relevant_communities =
              _keyword_based_community_matching(question, catalog.records)

\* C19: every sequence _find_relevant_communities returns, on the primary
\* path and on the keyword fallback path, is ordered by non-increasing
\* relevance_score.
C19_ScoresNonIncreasing ==
    qa_pc = "ranked" =>
        \A i \in 1..(Len(relevant_communities) - 1) :
            relevant_communities[i].relevance_score
                >= relevant_communities[i + 1].relevance_score

\* the primary path has put an array that came out of order (0.6, 0.9, 0.9,
\* 0.8) into order, the equal scores in the order they came in
C19_Witness ==
    /\ Ranked
    /\ rank_call.path = "primary"
    /\ Len(relevant_communities) = 4
    /\ relevant_communities[1].community_id = 2
    /\ relevant_communities[2].community_id = 3
    /\ relevant_communities[4].community_id = 1
    /\ relevant_communities[4].relevance_score = 6

\* the fallback has ranked three communities, the catalog's first two at
\* the cap of 1.0
FallbackRankingWitness ==
    /\ Ranked
    /\ rank_call.path = "fallback"
    /\ Len(relevant_communities) >= 3
    /\ relevant_communities[1].relevance_score = 10
    /\ relevant_communities[3].relevance_score < 10

\* C20: every entry _find_relevant_communities returns has a
\* relevance_score within [0, 1], whatever scores the generation
\* collaborator answers with and however many keywords match.
C20_ScoresInUnitInterval ==
    qa_pc = "ranked" =>
        \A i \in 1..Len(relevant_communities) :
            /\ relevant_communities[i].relevance_score >= 0
            /\ relevant_communities[i].relevance_score <= 10

\* on the fallback path the scores are within (0, 1]
FallbackScoresInUnitInterval ==
    (Ranked /\ rank_call.path = "fallback") =>
        \A i \in 1..Len(relevant_communities) :
            /\ relevant_communities[i].relevance_score > 0
            /\ relevant_communities[i].relevance_score <= 10

\* the request that produced the returned text: its operation, and "none"
\* for the apology, which no request produced
Producer(r) ==
    IF r.answer = Apology THEN "none"
    ELSE calls[r.answer.request].call

\* C21: the confidence of every answer is fixed by the step that produced
\* the returned text and takes no other value: 0.8 exactly when the
\* COMMUNITY_FIRST answer request produced it, 0.6 with sources exactly
\* {global graph search} when the GLOBAL_FIRST answer request produced it,
\* 0.7 when the synthesis request produced it, and 0.1 with no sources for
\* the terminal apology.
C21_ConfidenceByProducer ==
    qa_pc = "returned" =>
        LET r == qa_result[1]
        IN  /\ r.success
            /\ r.answer # Apology =>
                  /\ r.answer.request \in 1..Len(calls)
                  /\ calls[r.answer.request].outcome = "ok"
            /\ Producer(r) \in {"generate:community", "generate:global",
                                "generate:synthesis", "none"}
            /\ r.confidence \in {8, 6, 7, 1}
            /\ r.confidence = 8 <=> Producer(r) = "generate:community"
            /\ Producer(r) = "generate:global" =>
                  /\ r.confidence = 6
                  /\ r.sources = <<Source("global", 0)>>
            /\ Producer(r) = "generate:synthesis" => r.confidence = 7
            /\ Producer(r) = "none" =>
                  /\ r.confidence = 1
                  /\ r.sources = <<>>

\* a hybrid call answered by its synthesis request, after a community
\* sub-result of confidence 0.8 and a global sub-result that was the apology
C21_Witness ==
    /\ qa_pc = "returned"
    /\ search_strategy = "hybrid"
    /\ community_results # <<>>
    /\ community_results[1].confidence = 8
    /\ global_answer # <<>>
    /\ global_answer[1].confidence = 1
    /\ Producer(qa_result[1]) = "generate:synthesis"
    /\ qa_result[1].confidence = 7

\* the result of _community_first_search in this call, when its own answer
\* request produced it (a one-element list, or empty)
CommunityAnswer ==
    LET got == IF search_strategy = "community_first" THEN answer
               ELSE IF search_strategy = "hybrid" THEN community_results
               ELSE <<>>
    IN  IF got # <<>> /\ got[1].method = "community_first" THEN got ELSE <<>>

SummaryCalls ==
    SelectSeq(calls, LAMBDA c : c.call = "get_community_summary")

TopIds ==
    [i \in 1..Min2(3, Len(relevant_communities)) |->
        relevant_communities[i].community_id]

\* C22: when COMMUNITY_FIRST produces the answer, it uses exactly the first
\* min(3, n) entries of the ranked list and the answer's sources contain
\* exactly one "community {id}" entry for each of those communities, whether
\* or not every summary or subgraph fetch for them succeeded.
C22_SourcesForTopThree ==
    CommunityAnswer # <<>> =>
        /\ [i \in 1..Len(SummaryCalls) |-> SummaryCalls[i].arg] = TopIds
        /\ CommunityAnswer[1].sources =
              [i \in 1..Len(TopIds) |-> Source("community", TopIds[i])]

\* C22, amended: it fetches for exactly the first min(3, n) entries, in
\* their order, and the sources contain one entry for each of them whose
\* summary fetch succeeded, in that order; a community whose summary fetch
\* reported failure is not among the sources.
C22_SourcesForFetchedSummaries ==
    CommunityAnswer # <<>> =>
        LET fetched == SelectSeq(SummaryCalls, LAMBDA c : c.outcome = "ok")
        IN  /\ [i \in 1..Len(SummaryCalls) |-> SummaryCalls[i].arg] = TopIds
            /\ CommunityAnswer[1].sources =
                  [i \in 1..Len(fetched) |-> Source("community", fetched[i].arg)]
            /\ CommunityAnswer[1].confidence = 8

\* a ranked list of more than three, the summary fetch of the second
\* community reported failure, those of the first and third succeeded
C22_Witness ==
    /\ CommunityAnswer # <<>>
    /\ Len(relevant_communities) > 3
    /\ Len(SummaryCalls) = 3
    /\ SummaryCalls[1].outcome = "ok"
    /\ SummaryCalls[2].outcome = "fail"
    /\ SummaryCalls[3].outcome = "ok"
    /\ Len(CommunityAnswer[1].sources) = 2

\* _hybrid_search has returned the answer its synthesis request produced
Synthesized ==
    /\ search_strategy = "hybrid"
    /\ qa_pc \in {"answered", "returned"}
    /\ answer[1].method = "hybrid"

Elements(list) == { list[i] : i \in 1..Len(list) }

\* C23: when the HYBRID synthesis request succeeds, the result has confidence
\* 0.7 and sources equal to the union of the community sub-result's sources
\* and the global sub-result's sources (each listed once), and the
\* COMMUNITY_FIRST sub-traversal was run if and only if the ranked community
\* list was non-empty.
C23_SynthesisResult ==
    Synthesized =>
        LET a == answer[1]
            community_sources ==
                IF community_results # <<>> THEN community_results[1].sources
                ELSE <<>>
        IN  /\ a.confidence = 7
            /\ a.response.prompt = "synthesis"
            /\ Elements(a.sources) =
                  Elements(community_sources) \cup Elements(global_answer[1].sources)
            /\ \A i, j \in 1..Len(a.sources) : a.sources[i] = a.sources[j] => i = j
            /\ strategy_runs.community_first = 1 <=> relevant_communities # <<>>
            /\ community_results # <<>> <=> relevant_communities # <<>>
            /\ CallsOf("get_community_summary") # {} => relevant_communities # <<>>

\* a synthesized answer over a community sub-result that had fallen back to
\* GLOBAL_FIRST and a global sub-result: both name the global graph search,
\* the result names it once
C23_Witness ==
    /\ Synthesized
    /\ relevant_communities # <<>>
    /\ community_results[1].sources = <<Source("global", 0)>>
    /\ global_answer[1].sources = <<Source("global", 0)>>
    /\ answer[1].sources = <<Source("global", 0)>>
    /\ answer[1].confidence = 7

\* a synthesized answer over the sources of two communities and the global
\* graph search
SynthesisUnionWitness ==
    /\ Synthesized
    /\ community_results # <<>>
    /\ Len(community_results[1].sources) >= 2
    /\ community_results[1].confidence = 8
    /\ Len(answer[1].sources) = Len(community_results[1].sources) + 1

(***************************************************************************)
(* Further properties of _split_text.                                      *)
(***************************************************************************)
\* the strings of the list _split_text returns
ChunkTexts == [i \in 1..Len(chunks) |-> chunks[i].text]

\* the window at the cursor holds no marker at an offset above max_size // 2
NoAcceptableDelimiter ==
    LET window == PySlice(text, start, start + chunk_size)
    IN  \A p \in 1..Len(window) :
            (p - 1 > chunk_size \div 2) =>
                \A m \in 1..Len(Markers) : window[p] # Markers[m]

\* C24: with max_size=10, overlap=2 and the 20-character delimiter-free text
\* "1234567890ABCDEFGHIJ", _split_text returns exactly ["1234567890",
\* "90ABCDEFGH", "GHIJ"]; in general, when a window holds no acceptable
\* delimiter the full window is emitted and the cursor moves to
\* window_end - overlap.
C24_WorkedExample ==
    /\ []( (/\ split_pc = "done"
            /\ text = ExampleText
            /\ chunk_size = 10
            /\ chunk_overlap = 2) =>
              ChunkTexts =
                << <<"1", "2", "3", "4", "5", "6", "7", "8", "9", "0">>,
                   <<"9", "0", "A", "B", "C", "D", "E", "F", "G", "H">>,
                   <<"G", "H", "I", "J">> >> )
    /\ [][ (/\ split_pc = "loop"
            /\ split_pc' = "loop"
            /\ NoAcceptableDelimiter) =>
              /\ chunks' = Append(chunks, Chunk(start, start + chunk_size))
              /\ Len(chunks'[Len(chunks')].text) = chunk_size
              /\ start' = start + chunk_size - chunk_overlap ]_vars

\* the worked example has been split, into three chunks
C24_Witness ==
    /\ split_pc = "done"
    /\ text = ExampleText
    /\ chunk_size = 10
    /\ chunk_overlap = 2
    /\ Len(chunks) = 3
    /\ chunks[2].start = 8
    /\ chunks[3].start = 16

\* C25: for every text with len(text) <= max_size (including the empty text
\* and len(text) = max_size), _split_text returns exactly one chunk and that
\* chunk equals the text.
C25_ShortTextOneChunk ==
    (split_pc = "done" /\ Len(text) <= chunk_size) =>
        /\ Len(chunks) = 1
        /\ chunks[1].text = text

\* a text exactly as long as the window, returned whole under a positive overlap
C25_Witness ==
    /\ split_pc = "done"
    /\ Len(text) = chunk_size
    /\ chunk_overlap > 0
    /\ \E i \in 1..Len(text) : text[i] = "."
    /\ ChunkTexts = <<text>>

\* the empty text, returned as one empty chunk
EmptyTextWitness ==
    /\ split_pc = "done"
    /\ text = <<>>
    /\ ChunkTexts = << <<>> >>

\* C26: for every text longer than chunk_size, _split_text returns more than
\* one chunk, and every chunk it returns has length at most
\* chunk_size + chunk_overlap.
C26_LongTextChunks ==
    (split_pc = "done" /\ Len(text) > chunk_size) =>
        /\ Len(chunks) > 1
        /\ \A i \in 1..Len(chunks) :
              Len(chunks[i].text) <= chunk_size + chunk_overlap

\* a text longer than the window, returned in chunks of which one is a full
\* window and one was cut at a marker
C26_Witness ==
    /\ split_pc = "done"
    /\ Len(text) > chunk_size
    /\ chunk_overlap > 0
    /\ Len(chunks) >= 3
    /\ \E i \in 1..Len(chunks) : Len(chunks[i].text) = chunk_size
    /\ \E i \in 1..(Len(chunks) - 1) :
          /\ Len(chunks[i].text) < chunk_size
          /\ chunks[i].text[Len(chunks[i].text)] = "."

(***************************************************************************)
(* Further properties of the relevance ranking and of answer_question.     *)
(***************************************************************************)
\* d: the keywords of the question that are, case aside, substrings of the
\* description; t: the keywords that equal one of the topic tags
DescriptionHits(summary, keywords) ==
    Cardinality({ i \in 1..Len(keywords) :
        \E lo \in 1..Len(summary.description), hi \in 1..Len(summary.description) :
            LowerStr(SubSeq(summary.description, lo, hi)) = LowerStr(keywords[i]) })

TopicHits(summary, keywords) ==
    Cardinality({ i \in 1..Len(keywords) :
        \E j \in 1..Len(summary.main_topics) :
            summary.main_topics[j] = keywords[i] })

ExpectedScore(summary, keywords) ==
    Min2(10, 3 * DescriptionHits(summary, keywords)
             + 5 * TopicHits(summary, keywords))

\* C27: on the keyword fallback path, each catalog community's score equals
\* min(1.0, 0.3 * d + 0.5 * t), where d is the number of question keywords
\* that are case-insensitive substrings of its description and t the number
\* of keywords that exactly equal one of its topic tags; a community is
\* returned if and only if that score is greater than 0.
C27_FallbackScore ==
    (Ranked /\ rank_call.path = "fallback") =>
        LET keywords == _extract_keywords_from_question(question)
            entries(s) == { i \in 1..Len(relevant_communities) :
                              relevant_communities[i].community_id = s.community_id }
        IN  /\ \A n \in 1..Len(catalog.records) :
                  LET s == catalog.records[n]
                  IN  /\ ExpectedScore(s, keywords) > 0 <=> entries(s) # {}
                      /\ Cardinality(entries(s)) <= 1
                      /\ \A i \in entries(s) :
                            relevant_communities[i].relevance_score
                                = ExpectedScore(s, keywords)
            /\ \A i \in 1..Len(relevant_communities) :
                  \E n \in 1..Len(catalog.records) : i \in entries(catalog.records[n])

\* two keywords that differ in case only, over four communities: the first
\* is capped at 1.0 (d = 2, t = 1), the third scores 0.6 on its description
\* alone, the fourth scores 0 and is not returned
C27_Witness ==
    /\ Ranked
    /\ rank_call.path = "fallback"
    /\ Len(catalog.records) >= 4
    /\ _extract_keywords_from_question(question) = << <<"A", "b">>, <<"a", "b">> >>
    /\ \E i \in 1..Len(relevant_communities) :
          /\ relevant_communities[i].community_id = 1
          /\ relevant_communities[i].relevance_score = 10
    /\ \E i \in 1..Len(relevant_communities) :
          /\ relevant_communities[i].community_id = 3
          /\ relevant_communities[i].relevance_score = 6
    /\ \A i \in 1..Len(relevant_communities) :
          relevant_communities[i].community_id # 4

\* the generation requests of the call so far
GenerationRequests ==
    { i \in 1..Len(calls) :
        calls[i].call \in {"generate:ranking", "generate:community",
                           "generate:global", "generate:synthesis"} }

\* how far answer_question has come
Progress(pc) ==
    CASE pc = "call" -> 0
      [] pc = "ranked" -> 1
      [] pc = "hybrid_community" -> 2
      [] pc = "hybrid_global" -> 3
      [] pc \in {"answered", "raised"} -> 4
      [] pc = "returned" -> 5

\* the conditions under which the steps of answer_question are taken: one of
\* them holds (the collaborators' outcomes put no condition on a step: every
\* call has an outcome)
SomeStepApplies ==
    \/ qa_pc = "call"
    \/ qa_pc = "ranked" /\ search_strategy = "community_first"
    \/ qa_pc = "ranked" /\ search_strategy = "global_first"
    \/ qa_pc = "ranked" /\ search_strategy = "hybrid" /\ relevant_communities # <<>>
    \/ /\ search_strategy = "hybrid"
       /\ \/ qa_pc = "ranked" /\ relevant_communities = <<>>
          \/ qa_pc = "hybrid_community"
    \/ qa_pc = "hybrid_global"
    \/ qa_pc \in {"answered", "raised"}

\* C28: every answer_question call terminates with a terminal answer: the
\* fallback edges HYBRID -> COMMUNITY_FIRST -> GLOBAL_FIRST -> terminal
\* apology contain no cycle (every step brings the call nearer to its
\* return, no strategy is entered again after it was left, and a call that
\* has not returned can take a step), and a single call issues at most 6
\* generation requests, one for ranking plus at most five answer or
\* synthesis requests, whatever the collaborators return or raise.
C28_TerminatesWithinSixRequests ==
    /\ [][ Progress(qa_pc') > Progress(qa_pc) ]_vars
    /\ []( qa_pc # "returned" => SomeStepApplies )
    /\ []( /\ Cardinality(GenerationRequests) <= 6
           /\ Cardinality(CallsOf("generate:ranking")) <= 1
           /\ Cardinality(GenerationRequests \ CallsOf("generate:ranking")) <= 5
           /\ strategy_runs.community_first <= 1
           /\ strategy_runs.synthesis <= 1
           /\ \A i \in CallsOf("generate:community"), j \in 1..Len(calls) :
                 (j < i) => calls[j].call \notin {"generate:global",
                                                  "generate:synthesis"}
           /\ qa_pc = "returned" =>
                 /\ qa_result[1].success
                 /\ qa_result[1].answer.text \in {"generated", "apology"} )

\* a hybrid call that has issued six generation requests, all failed or
\* raised, and returned the apology
C28_Witness ==
    /\ qa_pc = "returned"
    /\ search_strategy = "hybrid"
    /\ Cardinality(GenerationRequests) = 6
    /\ \A i \in GenerationRequests : calls[i].outcome # "ok"
    /\ Cardinality(CallsOf("generate:global")) = 3
    /\ qa_result[1].answer = Apology

\* C29: in COMMUNITY_FIRST, for every interleaving of successful and failed
\* summary and subgraph fetches over the top-3 communities, each assembled
\* community context holds only data of its own community: the subgraph
\* stored in a context is the one fetched for that context's community_id,
\* never the subgraph of another community.
C29_ContextHoldsOwnSubgraph ==
    CommunityAnswer # <<>> =>
        \A i \in 1..Len(community_contexts) :
            community_contexts[i].subgraph \in {0, community_contexts[i].community_id}

\* what does hold: a context holds the subgraph of its own community or of
\* a community ranked after it whose summary fetch reported failure
SubgraphOfOwnOrLaterCommunity ==
    CommunityAnswer # <<>> =>
        \A i \in 1..Len(community_contexts) :
            LET ctx == community_contexts[i]
            IN  \/ ctx.subgraph \in {0, ctx.community_id}
                \/ \E j \in 1..Len(SummaryCalls) :
                      /\ SummaryCalls[j].arg = ctx.subgraph
                      /\ SummaryCalls[j].outcome = "fail"
                      /\ \E k \in 1..(j - 1) :
                            SummaryCalls[k].arg = ctx.community_id

\* 0 <= chunk_overlap <= chunk_size // 2 (chunk_size >= 1)
OverlapHalf ==
    /\ chunk_size >= 1
    /\ 0 <= chunk_overlap
    /\ chunk_overlap <= chunk_size \div 2

\* the loop makes progress: it has emitted no more chunks than the cursor has
\* moved, and its next iteration can be taken (the cursor is inside the
\* text, where one of the three branches of the loop body applies)
SplitProgresses ==
    split_pc = "loop" =>
        /\ Len(chunks) <= start
        /\ start < Len(text)
        /\ Len(chunks) < MaxChunks

\* each chunk ends at a strictly greater offset than the chunk before it
StopsIncrease ==
    \A i \in 2..Len(chunks) : chunks[i].stop > chunks[i - 1].stop

\* C30: for every text and every configuration with chunk_size >= 1 and
\* 0 <= chunk_overlap <= chunk_size // 2, _split_text terminates, its cursor
\* never becomes negative, every chunk is non-empty, and each chunk ends at
\* a strictly greater offset than the chunk before it.
C30_HalfOverlapWellBehaved ==
    /\ [][ (OverlapHalf /\ split_pc = "loop" /\ split_pc' = "loop") =>
              start' > start ]_vars
    /\ []( (OverlapHalf /\ split_pc # "idle") =>
              /\ SplitProgresses
              /\ start >= 0
              /\ \A i \in 1..Len(chunks) : chunks[i].text # <<>>
              /\ StopsIncrease )

\* C30, amended: the same for every non-empty text; for the empty text
\* _split_text returns the one chunk "", which is empty.
C30_HalfOverlapNonEmptyText ==
    /\ [][ (OverlapHalf /\ split_pc = "loop" /\ split_pc' = "loop") =>
              start' > start ]_vars
    /\ []( (OverlapHalf /\ split_pc # "idle") =>
              /\ SplitProgresses
              /\ start >= 0
              /\ text # <<>> => \A i \in 1..Len(chunks) : chunks[i].text # <<>>
              /\ text = <<>> => (split_pc = "done" => ChunkTexts = << <<>> >>)
              /\ StopsIncrease )

\* the largest overlap of the claim, after a cut at the earliest acceptable
\* marker: the cursor moved on by two, and the split went on to its end
C30_Witness ==
    /\ split_pc = "done"
    /\ OverlapHalf
    /\ chunk_overlap = chunk_size \div 2
    /\ chunk_overlap >= 2
    /\ Len(chunks) >= 3
    /\ chunks[1].stop = chunk_size \div 2 + 2
    /\ chunks[2].start = 2

====
